---- MODULE Spec2Model ----
(***************************************************************************)
(* Model of booker (larkwiot/booker): the book manager's Scan, the         *)
(* three-stage pipeline with its collector, the service supervisors and    *)
(* the rate-limited provider wrapper.                                      *)
(*                                                                         *)
(* Two groups of specifications share the module:                          *)
(*   Spec, SpecDup, FairSpec  - one run of BookManager.Scan over the       *)
(*                              pipeline (a provider lookup is one step);  *)
(*   ProviderSpec             - concurrent Generic.findResult calls on one *)
(*                              wrapper, statement by statement.           *)
(***************************************************************************)
EXTENDS Integers, Sequences, FiniteSets, TLC

(***************************************************************************)
(* Bounds of the model.                                                    *)
(***************************************************************************)
\* number of accepted files the scan directory may hold
MaxFiles == 2
\* number of entries an imported cache may hold
MaxCached == 1
\* number of ISBNs one SearchTerms may carry, and of distinct ISBNs
MaxIsbns == 1
\* the thread count asked for on the command line
Threads == 3
\* number of concurrent callers of Generic.findResult in ProviderSpec
NumLookups == 2
\* number of lookups each caller performs in ProviderSpec
MaxCalls == 2

\* the most ISBN-10s, and the most ISBN-13s, of one SearchTerms
MaxTerms == 2
\* number of calls of Generic.GetBookMetadata in MetadataSpec
MaxSearches == 2
\* number of pieces a text given to the ISBN identification is made of
MaxPieces == 3
\* number of goroutines running `work(i)` at a time in PoolSpec
NumWorkers == 3
\* the most stages of a pipeline in EngineSpec, and the items sent to it
MaxStageCount == 3
MaxItems == 2
\* the most services one supervisor manages in WatchSpec, and the probe
\* cycles it runs
MaxServices == 2
MaxCycles == 2
\* the largest small thread count asked for in BudgetSpec, and the books sent
MaxThreads == 4
MaxBooks == 2
\* calls one caller makes of a wrapper in RepeatSpec
MaxRepeats == 2
\* length of the list of results given to ChooseBestResult
MaxResults == 3
\* number of items handed to the JsonStreamWriter in WriterSpec
MaxWrites == 4
\* the longest batch handed to WriteBatch in WriterSpec
MaxBatch == 2

(***************************************************************************)
(* Program constants.                                                      *)
(***************************************************************************)
ThreadCap == 2000
NumStages == 3
StatusTooManyRequests == 429
StatusOK == 200
InputCapacity == 10000
GoogleConfidence == 100

Paths == 1..MaxFiles
Isbns == 1..MaxIsbns
Extractors == {"Tika"}
Providers == {"Google"}

\* stage indices in pipeline order; Collector is the terminal sink
ExtractStage == 0
SearchStage == 1
CollateStage == 2
Collector == 3
Stages == 0..(NumStages - 1)
Goroutines == 0..NumStages

\* error texts of the worker functions
ErrNoLiveExtractors == "error: no live extractors found"
ErrNoTexts == "no texts extracted"
ErrDryRun == "dry run"
ErrNoLiveProviders == "error: no live providers found"
ErrNoResults == "error: no results found"
ErrCollate == "could not collate"
ErrSelfDisabled == "provider self-disabled, probably due to rate limit"
ErrInner == "inner provider error"
ErrRateLimited == "google returned bad status code 429"
NoErr == ""

\* what the JsonStreamWriter puts into the file: "{", "," and "}", and one
\* formatted `"key": data` per item
OpenBrace == [t |-> "{", key |-> 0]
Comma == [t |-> ",", key |-> 0]
CloseBrace == [t |-> "}", key |-> 0]
Entry(key) == [t |-> "entry", key |-> key]

VARIABLES
    \* BookManager
    books,          \* bm.books: processed map, path -> Book
    imported,       \* keys of bm.books when Scan was entered (the imported cache)
    dryRun,         \* the dryRun argument of Scan / bm.dryRun
    writerSet,      \* bm.writer != nil
    writerClosed,   \* writer.Close() has run
    written,        \* items handed to writer.WriteObject, in order
    scanPc,         \* position of Scan
    scanExit,       \* how Scan left its polling loop
    bookCount,      \* Scan's local bookCount
    walkList,       \* the files WalkDir visits, in order
    walkPos,        \* number of walk entries visited
    waitIdx,        \* next stage Pipeline.Wait / Pipeline.Close waits for
    \* Pipeline
    started,        \* goroutine g has entered Run (registered with its wait group)
    exited,         \* goroutine g has returned from Run
    quitClosed,     \* stage s's quit channel is closed
    closedChans,    \* closed channels: 0 = Frontend, s = output of stage s-1
    items,          \* per walk entry: where its item is in the pipeline
    failCount,      \* p.failCount
    collected,      \* collector.count
    \* ServiceManagers
    liveExtractors, \* extractorsManager.liveServices (names)
    liveProviders,  \* providersManager.liveServices (names)
    \* Generic provider wrapper
    disabled,       \* g.disabled
    cache,          \* g.cache: ISBN -> the stored BookResult
    \* ProviderSpec: concurrent findResult calls
    lookups,        \* per caller: position inside findResult
    tick,           \* a tick is pending on g.rateLimiter
    innerCalls,     \* calls of the inner FindResult started
    ticksTaken,     \* ticks received from g.rateLimiter
    \* main: the cache file handed to Import
    cacheFile,      \* content of the --cache file: path -> error message
    retry,          \* the --retry option (Import's removeErrored)
    \* MetadataSpec: one caller of Generic.GetBookMetadata
    call,           \* the call's search terms, loop position and results
    \* WriterSpec: the JsonStreamWriter
    stream,         \* the output file, the Input channel and the writer's flags
    \* PoolSpec: the stages' thread pools
    pool,           \* per stage ThreadPool.Count; per goroutine its position
    \* IsbnSpec: the ISBN utilities
    isbnCall,       \* the argument of a call, the function called and its result
    \* ChooseSpec: book.ChooseBestResult
    chosen,         \* the argument of a call and what it returned
    \* EngineSpec: a pipeline of any number of stages
    engine,         \* the goroutines Run launched and where each item is
    \* WatchSpec: ServiceManager.watch, check by check
    cycle,          \* the services, the live set and the cycle's position
    \* BudgetSpec: the thread budget and the extract stage's pool
    budget,         \* the threads asked for, the pool and the books sent
    repeat          \* a wrapper's fixed inner answers and the lookups made of it

scanVars == <<books, imported, dryRun, writerSet, writerClosed, written, scanPc,
              scanExit, bookCount, walkList, walkPos, waitIdx>>
pipeVars == <<started, exited, quitClosed, closedChans, items, failCount, collected>>
svcVars == <<liveExtractors, liveProviders>>
provVars == <<disabled, cache>>
lookupVars == <<lookups, tick, innerCalls, ticksTaken>>
mainVars == <<cacheFile, retry>>
metaVars == <<call>>
writerVars == <<stream>>
poolVars == <<pool>>
isbnVars == <<isbnCall>>
compVars == <<chosen, engine, cycle, budget, repeat>>
vars == <<scanVars, pipeVars, svcVars, provVars, lookupVars, mainVars, metaVars,
          writerVars, poolVars, isbnVars, compVars>>

(***************************************************************************)
(* Values.                                                                 *)
(***************************************************************************)
\* book.Book, reduced to its identity and its error message
Book(path, err) == [filepath |-> path, err |-> err]

\* the zero value book.BookResult{}: empty filepath, confidence 0
NoPath == 0
ZeroResult == [filepath |-> NoPath, confidence |-> 0, isNaN |-> FALSE]
\* the record Google.FindResult builds for a matched volume
FoundResult(path) ==
    [filepath |-> path, confidence |-> GoogleConfidence, isNaN |-> FALSE]

\* BookResult.ToBook
ToBook(br) == Book(br.filepath, NoErr)

\* sequences of at most n elements of S
SeqsUpTo(S, n) == UNION {[1..k -> S] : k \in 0..n}

\* the elements of a set of integers in increasing order (WalkDir's lexical order)
RECURSIVE SortedSeq(_)
SortedSeq(S) ==
    IF S = {} THEN <<>>
    ELSE LET m == CHOOSE x \in S : \A y \in S : x <= y
         IN <<m>> \o SortedSeq(S \ {m})

\* a map with one more entry
MapPut(m, k, v) == [x \in DOMAIN m \cup {k} |-> IF x = k THEN v ELSE m[x]]

EmptyMap == [x \in {} |-> 0]

(***************************************************************************)
(* Thread budget: NewBookManager and Pipeline.Run.                         *)
(***************************************************************************)
NumCPU == 4

bestThreadCount ==
    IF Cardinality(Providers) = 0 THEN 0
    ELSE (NumCPU \div Cardinality(Extractors)) * Cardinality(Providers)

TotalThreadCount ==
    LET t0 == IF Threads = 0 THEN bestThreadCount ELSE Threads
        t1 == IF t0 > ThreadCap THEN ThreadCap ELSE t0
    IN IF t1 % 2 = 1 THEN t1 + 1 ELSE t1

perStageThreadCount == TotalThreadCount \div NumStages

\* NewStage: util.ThreadPool{Size: poolSize + 1}
PoolSize == perStageThreadCount + 1

(***************************************************************************)
(* book.ChooseBestResult.                                                  *)
(***************************************************************************)
\* index of the chosen result, 0 when none is eligible; math.IsNaN(confidence)
\* is the isNaN field
RECURSIVE ChooseFrom(_, _, _, _)
ChooseFrom(results, k, highestConfidence, bestBook) ==
    IF k > Len(results) THEN bestBook
    ELSE LET confidence == results[k].confidence
         IN IF results[k].isNaN
            THEN ChooseFrom(results, k + 1, highestConfidence, bestBook)
            ELSE IF confidence > highestConfidence
                 THEN ChooseFrom(results, k + 1, confidence, k)
                 ELSE ChooseFrom(results, k + 1, highestConfidence, bestBook)

\* mutant of ChooseBestResult: a later result of the same confidence wins
RECURSIVE ChooseLastFrom(_, _, _, _)
ChooseLastFrom(results, k, highestConfidence, bestBook) ==
    IF k > Len(results) THEN bestBook
    ELSE IF results[k].isNaN
    THEN ChooseLastFrom(results, k + 1, highestConfidence, bestBook)
    ELSE IF results[k].confidence >= highestConfidence /\ results[k].confidence > 0
    THEN ChooseLastFrom(results, k + 1, results[k].confidence, k)
    ELSE ChooseLastFrom(results, k + 1, highestConfidence, bestBook)

ChooseBestResultLast(results) ==
    IF Len(results) = 0 THEN 0 ELSE ChooseLastFrom(results, 1, 0, 0)

ChooseBestResult(results) ==
    IF Len(results) = 0 THEN 0 ELSE ChooseFrom(results, 1, 0, 0)

(***************************************************************************)
(* The provider wrapper, one lookup as one step.                           *)
(***************************************************************************)
\* what the inner provider may answer
Responses == {"found", "none", "err", "429"}

\* Google.FindResult: (result, err, statusCode) for each kind of answer
InnerFindResult(resp, path) ==
    CASE resp = "found" -> [result |-> FoundResult(path), err |-> NoErr, status |-> StatusOK]
      [] resp = "none"  -> [result |-> ZeroResult, err |-> NoErr, status |-> StatusOK]
      [] resp = "err"   -> [result |-> ZeroResult, err |-> ErrInner, status |-> 0]
      [] resp = "429"   -> [result |-> ZeroResult, err |-> ErrRateLimited,
                            status |-> StatusTooManyRequests]

\* Generic.findResult run without interruption:
\* (result, err) and the wrapper's state afterwards
findResult(isbn, path, resp, dis, ch) ==
    IF isbn \in DOMAIN ch
    THEN [result |-> ch[isbn], err |-> NoErr, disabled |-> dis, cache |-> ch]
    ELSE IF dis
    THEN [result |-> ZeroResult, err |-> ErrSelfDisabled, disabled |-> dis, cache |-> ch]
    ELSE LET r == InnerFindResult(resp, path)
         IN IF r.status = StatusTooManyRequests
            THEN [result |-> ZeroResult, err |-> r.err, disabled |-> TRUE, cache |-> ch]
            ELSE [result |-> r.result, err |-> r.err, disabled |-> dis,
                  cache |-> IF r.err # NoErr THEN MapPut(ch, isbn, r.result) ELSE ch]

\* Generic.GetBookMetadata: one lookup per ISBN in order, aborting on the
\* first error
RECURSIVE GetBookMetadataFrom(_, _, _, _, _, _, _)
GetBookMetadataFrom(isbns, k, path, resps, dis, ch, acc) ==
    IF k > Len(isbns)
    THEN [results |-> acc, err |-> NoErr, disabled |-> dis, cache |-> ch]
    ELSE LET o == findResult(isbns[k], path, resps[k], dis, ch)
         IN IF o.err # NoErr
            THEN [results |-> <<>>, err |-> o.err, disabled |-> o.disabled,
                  cache |-> o.cache]
            ELSE GetBookMetadataFrom(isbns, k + 1, path, resps, o.disabled, o.cache,
                                     Append(acc, o.result))

GetBookMetadata(isbns, path, resps, dis, ch) ==
    GetBookMetadataFrom(isbns, 1, path, resps, dis, ch, <<>>)


(***************************************************************************)
(* Pipeline items.  Entry k of the walk owns item k; the item's record     *)
(* says which goroutine holds it and what it carries.                      *)
(*   pc: "unvisited"  the walk has not reached the entry                   *)
(*       "skipped"    the walk found the path in the processed map         *)
(*       "spawned"    `go work(i)` issued by stage st, before StartThread  *)
(*       "running"    inside the worker function of stage st               *)
(*       "result"     the worker returned a result, blocked on output <-   *)
(*       "failed"     the worker returned a failure, before failHandler    *)
(*       "fhWrite"    failHandler -> finishBook, past isBookProcessed      *)
(*       "collecting" received by the collector, entering finishBook       *)
(*       "colWrite"   collector's finishBook, past isBookProcessed         *)
(*       "finished"   finishBook wrote the book                            *)
(*       "discarded"  finishBook returned without writing                  *)
(*       "dropped"    failHandler dropped the item                         *)
(* An item keeps the payload only while a goroutine still reads it.        *)
(***************************************************************************)
\*   path: the file the walk sent; bk: the Filepath of the Book the item is
\*   while it is a Book (the stage-0 input, the collate output)
NewItem == [pc |-> "unvisited", st |-> ExtractStage, path |-> NoPath, bk |-> NoPath,
            isbns |-> <<>>, results |-> <<>>, err |-> NoErr]

ItemIds == DOMAIN items

\* pcs at which a worker of a stage is registered with the stage's pool
\* (between StartThread and the deferred StopThread)
InPool == {"running", "result", "failed", "fhWrite"}

\* ThreadPool.Count, and the pool's wait group, of stage s
PoolCount(s) ==
    (IF started[s] /\ ~exited[s] THEN 1 ELSE 0)
    + Cardinality({k \in ItemIds : items[k].st = s /\ items[k].pc \in InPool})

\* the wait group a Wait on goroutine g blocks on
WaitGroup(g) ==
    IF g = Collector THEN (IF started[g] /\ ~exited[g] THEN 1 ELSE 0)
    ELSE PoolCount(g)

\* the collector is inside s.collector(output)
CollectorBusy == \E k \in ItemIds : items[k].pc \in {"collecting", "colWrite"}

\* goroutine g is at the receive of its input channel
Receiving(g) ==
    /\ started[g] /\ ~exited[g]
    /\ g \notin closedChans
    /\ (g = Collector => ~CollectorBusy)

\* mutant of isBookProcessed: no path is ever found in the map
isBookProcessedNever(path) == FALSE

\* BookManager.isBookProcessed
isBookProcessed(path) == path \in DOMAIN books

\* BookManager.getProcessedBookCount
getProcessedBookCount == Cardinality(DOMAIN books)

PipelineRunning == scanPc \notin {"start", "run"}

(***************************************************************************)
(* Initial states: the BookManager is built, a cache may have been         *)
(* imported, Scan has not been entered.                                    *)
(***************************************************************************)
CachedBooks ==
    UNION {[C -> {NoErr, "x"}] : C \in {D \in SUBSET Paths : Cardinality(D) <= MaxCached}}

\* a caller of findResult.  pc: "idle" outside findResult, "loaded" past the
\* cache miss, "waiting" at <-g.rateLimiter, "inner" inside g.FindResult.
\* calls counts the caller's lookups; ret is what its last lookup returned;
\* afterDisabled and wasCached record g.disabled and the cache hit at the
\* moment that lookup started; result and err are the values that lookup
\* returned, status the status code of its inner call (0 before any)
NewLookup == [pc |-> "idle", isbn |-> 0, calls |-> 0, ret |-> "",
              afterDisabled |-> FALSE, wasCached |-> FALSE,
              result |-> ZeroResult, err |-> NoErr, status |-> 0]

InitLookups ==
    /\ lookups = [l \in 1..NumLookups |-> NewLookup]
    /\ tick = FALSE
    /\ innerCalls = 0
    /\ ticksTaken = 0

\* mutant of Import: removeErrored is ignored
ImportKeepsAll(file, removeErrored) == [p \in DOMAIN file |-> Book(p, file[p])]

\* BookManager.Import: the processed map after the cache file was read into
\* the empty map and, with removeErrored, the entries with a non-empty error
\* message were deleted
Import(file, removeErrored) ==
    LET kept == IF removeErrored THEN {p \in DOMAIN file : file[p] = NoErr}
                ELSE DOMAIN file
    IN [p \in kept |-> Book(p, file[p])]

\* a call, not started
NewCall == [pc |-> "idle", isbn10s |-> <<>>, isbn13s |-> <<>>, idx |-> 0,
            results |-> <<>>, err |-> NoErr, looked |-> <<>>, calls |-> 0]

\* NewJsonStreamWriter: the file holds "{", nothing is queued
NewJsonStreamWriter ==
    [file |-> <<OpenBrace>>, Input |-> <<>>, inputClosed |-> FALSE,
     isInitialized |-> FALSE, writerDone |-> FALSE, closePc |-> "open",
     accepted |-> 0, handed |-> <<>>, direct |-> {}]

\* the pools of the stages NewStage built: nothing runs
NewPools == [Count |-> [s \in Stages |-> 0],
             loop |-> [s \in Stages |-> FALSE],
             work |-> [w \in 1..NumWorkers |-> [pc |-> "idle", st |-> ExtractStage]]]

\* no ISBN utility has been called
IdleIsbn == [text |-> <<>>, fn |-> "none", ok |-> FALSE, found |-> <<>>]

\* ChooseBestResult has not been called
IdleChoice == [results |-> <<>>, pc |-> "idle", best |-> 0, err |-> NoErr]

\* no pipeline has been built
IdleEngine == [n |-> 0, launched |-> {}, its |-> <<>>, count |-> 0]

\* no supervisor is watching
IdleCycle == [services |-> <<>>, live |-> {}, pc |-> "idle", idx |-> 0,
              before |-> {}, log |-> <<>>, cycles |-> 0]

\* no BookManager has been built
IdleBudget == [pc |-> "idle", threads |-> 0, Size |-> 0, Count |-> 0,
               loop |-> FALSE, bks |-> <<>>]

\* no wrapper under repetition
IdleRepeat == [pc |-> "idle", inner |-> <<>>, log |-> <<>>]

\* the component models are at rest
IdleComp ==
    /\ repeat = IdleRepeat
    /\ chosen = IdleChoice
    /\ engine = IdleEngine
    /\ cycle = IdleCycle
    /\ budget = IdleBudget

\* everything but the processed map and Scan's position
InitRest ==
    /\ pool = NewPools
    /\ call = NewCall
    /\ stream = NewJsonStreamWriter
    /\ dryRun \in BOOLEAN
    /\ writerSet = FALSE
    /\ writerClosed = FALSE
    /\ written = <<>>
    /\ scanExit = ""
    /\ bookCount = 0
    /\ walkPos = 0
    /\ waitIdx = 0
    /\ started = [g \in Goroutines |-> FALSE]
    /\ exited = [g \in Goroutines |-> FALSE]
    /\ quitClosed = [s \in Stages |-> FALSE]
    /\ closedChans = {}
    /\ items = [k \in 1..Len(walkList) |-> NewItem]
    /\ failCount = 0
    /\ collected = 0
    /\ liveExtractors = Extractors
    /\ liveProviders = Providers
    /\ disabled = FALSE
    /\ cache = EmptyMap
    /\ InitLookups

\* main has imported the cache, if any, without --retry: every entry of the
\* file is in the processed map
InitCommon ==
    /\ \E errs \in CachedBooks :
          books = [p \in DOMAIN errs |-> Book(p, errs[p])]
    /\ imported = DOMAIN books
    /\ cacheFile = [p \in DOMAIN books |-> books[p].err]
    /\ retry = FALSE
    /\ scanPc = "start"
    /\ isbnCall = IdleIsbn
    /\ IdleComp
    /\ InitRest

\* WalkDir visits every accepted file once, in lexical order
Init ==
    /\ walkList \in {SortedSeq(S) : S \in SUBSET Paths}
    /\ InitCommon

\* the walk may meet the same absolute path more than once
InitDup ==
    /\ walkList \in SeqsUpTo(Paths, MaxFiles)
    /\ InitCommon


(***************************************************************************)
(* BookManager.Scan.                                                       *)
(***************************************************************************)
\* mutant of RangeOrders: the loop over bm.books visits nothing
RangeOrdersNone(S) == {<<>>}

\* the orders in which `for _, bk := range bm.books` may visit the map
RangeOrders(S) ==
    {q \in [1..Cardinality(S) -> S] : \A i, j \in DOMAIN q : i # j => q[i] # q[j]}

\* Scan up to the cached write-out: bm.writer = writer, then every book
\* already in the map is handed to the writer
ScanStart ==
    /\ scanPc = "start"
    /\ writerSet' = TRUE
    /\ \E order \in RangeOrders(DOMAIN books) :
          written' = written \o [i \in DOMAIN order |-> books[order[i]]]
    /\ scanPc' = "run"
    /\ UNCHANGED <<books, imported, dryRun, writerClosed, scanExit, bookCount,
                   walkList, walkPos, waitIdx>>
    /\ UNCHANGED <<pipeVars, svcVars, provVars, lookupVars>>
    /\ UNCHANGED <<compVars, isbnVars, poolVars, mainVars, metaVars, writerVars>>

\* bm.pipe.Run(bm.failHandler); bookCount := bm.getProcessedBookCount()
\* Run only issues the `go` statements: the goroutines start on their own
PipelineRun ==
    /\ scanPc = "run"
    /\ bookCount' = getProcessedBookCount
    /\ scanPc' = IF Len(walkList) = 0 THEN "poll" ELSE "walk"
    /\ UNCHANGED <<books, imported, dryRun, writerSet, writerClosed, written,
                   scanExit, walkList, walkPos, waitIdx>>
    /\ UNCHANGED <<pipeVars, svcVars, provVars, lookupVars>>
    /\ UNCHANGED <<compVars, isbnVars, poolVars, mainVars, metaVars, writerVars>>

\* mutant of CountSent: the walk sends the file without counting it
CountSentNotCounted(n) == n

\* the value of bookCount after a file was sent to the frontend
CountSent(n) == n + 1

\* the WalkDir callback for the next accepted file: skip it when it is in the
\* processed map, otherwise count it and send it to the frontend, where the
\* extract stage's loop receives it and issues `go work(i)`
WalkVisit ==
    /\ scanPc = "walk"
    /\ LET k == walkPos + 1
           path == walkList[k]
       IN /\ IF isBookProcessed(path)
             THEN /\ items' = [items EXCEPT ![k].pc = "skipped", ![k].path = path]
                  /\ UNCHANGED bookCount
             ELSE /\ Receiving(ExtractStage)
                  /\ bookCount' = CountSent(bookCount)
                  /\ items' = [items EXCEPT ![k].pc = "spawned", ![k].path = path,
                                            ![k].bk = path, ![k].st = ExtractStage]
          /\ walkPos' = k
          /\ scanPc' = IF k = Len(walkList) THEN "poll" ELSE "walk"
    /\ UNCHANGED <<books, imported, dryRun, writerSet, writerClosed, written,
                   scanExit, walkList, waitIdx>>
    /\ UNCHANGED <<started, exited, quitClosed, closedChans, failCount, collected>>
    /\ UNCHANGED <<svcVars, provVars, lookupVars>>
    /\ UNCHANGED <<compVars, isbnVars, poolVars, mainVars, metaVars, writerVars>>

\* one iteration of `for bm.getProcessedBookCount() != bookCount { ... }`
PollBranch ==
    IF getProcessedBookCount = bookCount THEN "break"
    ELSE IF Cardinality(liveExtractors) = 0 THEN "extractors down"
    ELSE IF Cardinality(liveProviders) = 0 THEN "providers down"
    ELSE "sleep"

ScanPoll ==
    /\ scanPc = "poll"
    /\ PollBranch # "sleep"
    /\ scanExit' = PollBranch
    /\ scanPc' = "wait"
    /\ waitIdx' = 0
    /\ UNCHANGED <<books, imported, dryRun, writerSet, writerClosed, written,
                   bookCount, walkList, walkPos>>
    /\ UNCHANGED <<pipeVars, svcVars, provVars, lookupVars>>
    /\ UNCHANGED <<compVars, isbnVars, poolVars, mainVars, metaVars, writerVars>>

\* Pipeline.Wait: stage.Wait() for each stage in order, then collector.Wait();
\* each blocks until the wait group it waits on is at zero
PipelineWait ==
    /\ scanPc = "wait"
    /\ WaitGroup(waitIdx) = 0
    /\ IF waitIdx = Collector
       THEN scanPc' = "close" /\ waitIdx' = 0
       ELSE scanPc' = scanPc /\ waitIdx' = waitIdx + 1
    /\ UNCHANGED <<books, imported, dryRun, writerSet, writerClosed, written,
                   scanExit, bookCount, walkList, walkPos>>
    /\ UNCHANGED <<pipeVars, svcVars, provVars, lookupVars>>
    /\ UNCHANGED <<compVars, isbnVars, poolVars, mainVars, metaVars, writerVars>>

\* Pipeline.Close, first statement: close(p.Frontend)
CloseFrontend ==
    /\ scanPc = "close"
    /\ closedChans' = closedChans \cup {ExtractStage}
    /\ scanPc' = "closeQuit"
    /\ waitIdx' = 0
    /\ UNCHANGED <<books, imported, dryRun, writerSet, writerClosed, written,
                   scanExit, bookCount, walkList, walkPos>>
    /\ UNCHANGED <<started, exited, quitClosed, items, failCount, collected>>
    /\ UNCHANGED <<svcVars, provVars, lookupVars>>
    /\ UNCHANGED <<compVars, isbnVars, poolVars, mainVars, metaVars, writerVars>>

\* Stage.Close: close(s.quit) ...
CloseStageQuit ==
    /\ scanPc = "closeQuit"
    /\ quitClosed' = [quitClosed EXCEPT ![waitIdx] = TRUE]
    /\ scanPc' = "closeWait"
    /\ UNCHANGED <<books, imported, dryRun, writerSet, writerClosed, written,
                   scanExit, bookCount, walkList, walkPos, waitIdx>>
    /\ UNCHANGED <<started, exited, closedChans, items, failCount, collected>>
    /\ UNCHANGED <<svcVars, provVars, lookupVars>>
    /\ UNCHANGED <<compVars, isbnVars, poolVars, mainVars, metaVars, writerVars>>

\* ... then s.pool.Wait(); after the last stage the internal channels and the
\* backend are closed and the collector's count is reset
CloseStageWait ==
    /\ scanPc = "closeWait"
    /\ PoolCount(waitIdx) = 0
    /\ IF waitIdx = NumStages - 1
       THEN /\ closedChans' = closedChans \cup (1..NumStages)
            /\ collected' = 0
            /\ scanPc' = "return"
            /\ waitIdx' = 0
       ELSE /\ scanPc' = "closeQuit"
            /\ waitIdx' = waitIdx + 1
            /\ UNCHANGED <<closedChans, collected>>
    /\ UNCHANGED <<books, imported, dryRun, writerSet, writerClosed, written,
                   scanExit, bookCount, walkList, walkPos>>
    /\ UNCHANGED <<started, exited, quitClosed, items, failCount>>
    /\ UNCHANGED <<svcVars, provVars, lookupVars>>
    /\ UNCHANGED <<compVars, isbnVars, poolVars, mainVars, metaVars, writerVars>>

\* Scan returns: the deferred bm.EndDryRun(), bm.writer.Close(), bm.writer = nil
ScanReturn ==
    /\ scanPc = "return"
    /\ dryRun' = FALSE
    /\ writerClosed' = TRUE
    /\ writerSet' = FALSE
    /\ scanPc' = "returned"
    /\ UNCHANGED <<books, imported, written, scanExit, bookCount, walkList,
                   walkPos, waitIdx>>
    /\ UNCHANGED <<pipeVars, svcVars, provVars, lookupVars>>
    /\ UNCHANGED <<compVars, isbnVars, poolVars, mainVars, metaVars, writerVars>>


(***************************************************************************)
(* Pipeline goroutines: Stage.Run and CollectorStage.Run.                  *)
(***************************************************************************)
\* the goroutine enters Run: a stage takes a slot of its own pool
\* (s.pool.StartThread()), the collector does s.wait.Add(1)
StageStart(g) ==
    /\ PipelineRunning
    /\ ~started[g]
    /\ g # Collector => PoolCount(g) < PoolSize
    /\ started' = [started EXCEPT ![g] = TRUE]
    /\ UNCHANGED <<exited, quitClosed, closedChans, items, failCount, collected>>
    /\ UNCHANGED <<scanVars, svcVars, provVars, lookupVars>>
    /\ UNCHANGED <<compVars, isbnVars, poolVars, mainVars, metaVars, writerVars>>

\* the loop returns when its input channel is closed or, for a stage, when
\* its quit channel is closed; the deferred StopThread / Done runs
StageExit(g) ==
    /\ started[g] /\ ~exited[g]
    /\ (g = Collector => ~CollectorBusy)
    /\ \/ g \in closedChans
       \/ g # Collector /\ quitClosed[g]
    /\ exited' = [exited EXCEPT ![g] = TRUE]
    /\ UNCHANGED <<started, quitClosed, closedChans, items, failCount, collected>>
    /\ UNCHANGED <<scanVars, svcVars, provVars, lookupVars>>
    /\ UNCHANGED <<compVars, isbnVars, poolVars, mainVars, metaVars, writerVars>>

\* work(i), first statement: s.pool.StartThread()
WorkStart(k) ==
    /\ items[k].pc = "spawned"
    /\ PoolCount(items[k].st) < PoolSize
    /\ items' = [items EXCEPT ![k].pc = "running"]
    /\ UNCHANGED <<started, exited, quitClosed, closedChans, failCount, collected>>
    /\ UNCHANGED <<scanVars, svcVars, provVars, lookupVars>>
    /\ UNCHANGED <<compVars, isbnVars, poolVars, mainVars, metaVars, writerVars>>

(***************************************************************************)
(* The worker functions.                                                   *)
(***************************************************************************)
\* BookManager.extract.  texts: the live extractors whose ExtractText
\* succeeded; found: the ISBN-10s followed by the ISBN-13s identified
extract(k, texts, found) ==
    IF Cardinality(liveExtractors) = 0
    THEN [items[k] EXCEPT !.pc = "failed", !.err = ErrNoLiveExtractors]
    ELSE IF Cardinality(texts) = 0
    THEN [items[k] EXCEPT !.pc = "failed", !.err = ErrNoTexts]
    ELSE [items[k] EXCEPT !.pc = "result", !.isbns = found]

Extract(k) ==
    /\ items[k].pc = "running"
    /\ items[k].st = ExtractStage
    /\ \E texts \in SUBSET liveExtractors, found \in SeqsUpTo(Isbns, MaxIsbns) :
          /\ (texts = {} => found = <<>>)
          /\ items' = [items EXCEPT ![k] = extract(k, texts, found)]
    /\ UNCHANGED <<started, exited, quitClosed, closedChans, failCount, collected>>
    /\ UNCHANGED <<scanVars, svcVars, provVars, lookupVars>>
    /\ UNCHANGED <<compVars, isbnVars, poolVars, mainVars, metaVars, writerVars>>

\* BookManager.search.  The only provider NewBookManager registers is the
\* Generic wrapper around Google, so the loop over the live providers makes
\* at most one GetBookMetadata call; resps are the inner provider's answers
searchOutcome(k, resps) ==
    GetBookMetadata(items[k].isbns, items[k].path, resps, disabled, cache)

\* mutant of search: the dry-run test is missing
searchIgnoresDryRun(k, resps) ==
    IF Cardinality(liveProviders) = 0
    THEN [items[k] EXCEPT !.pc = "failed", !.err = ErrNoLiveProviders]
    ELSE LET o == searchOutcome(k, resps)
             results == IF o.err # NoErr THEN <<>> ELSE o.results
         IN IF Len(results) = 0
            THEN [items[k] EXCEPT !.pc = "failed", !.err = ErrNoResults]
            ELSE [items[k] EXCEPT !.pc = "result", !.isbns = <<>>, !.results = results]

search(k, resps) ==
    IF dryRun
    THEN [items[k] EXCEPT !.pc = "failed", !.err = ErrDryRun]
    ELSE IF Cardinality(liveProviders) = 0
    THEN [items[k] EXCEPT !.pc = "failed", !.err = ErrNoLiveProviders]
    ELSE LET o == searchOutcome(k, resps)
             results == IF o.err # NoErr THEN <<>> ELSE o.results
         IN IF Len(results) = 0
            THEN [items[k] EXCEPT !.pc = "failed", !.err = ErrNoResults]
            ELSE [items[k] EXCEPT !.pc = "result", !.isbns = <<>>, !.results = results]

Search(k) ==
    /\ items[k].pc = "running"
    /\ items[k].st = SearchStage
    /\ \E resps \in [1..Len(items[k].isbns) -> Responses] :
          /\ items' = [items EXCEPT ![k] = search(k, resps)]
          /\ IF dryRun \/ Cardinality(liveProviders) = 0
             THEN UNCHANGED <<disabled, cache>>
             ELSE /\ disabled' = searchOutcome(k, resps).disabled
                  /\ cache' = searchOutcome(k, resps).cache
    /\ UNCHANGED <<started, exited, quitClosed, closedChans, failCount, collected>>
    /\ UNCHANGED <<scanVars, svcVars, lookupVars>>
    /\ UNCHANGED <<compVars, isbnVars, poolVars, mainVars, metaVars, writerVars>>

\* mutant of collate: the failure is returned together with a result, which
\* the work closure forwards
collateForwardsFailure(k) ==
    LET best == ChooseBestResult(items[k].results)
    IN IF best = 0
       THEN [items[k] EXCEPT !.pc = "result", !.err = ErrCollate]
       ELSE [items[k] EXCEPT !.pc = "result", !.results = <<>>,
                             !.bk = ToBook(items[k].results[best]).filepath]

\* BookManager.collate
collate(k) ==
    LET best == ChooseBestResult(items[k].results)
    IN IF best = 0
       THEN [items[k] EXCEPT !.pc = "failed", !.err = ErrCollate]
       ELSE [items[k] EXCEPT !.pc = "result", !.results = <<>>,
                             !.bk = ToBook(items[k].results[best]).filepath]

Collate(k) ==
    /\ items[k].pc = "running"
    /\ items[k].st = CollateStage
    /\ items' = [items EXCEPT ![k] = collate(k)]
    /\ UNCHANGED <<started, exited, quitClosed, closedChans, failCount, collected>>
    /\ UNCHANGED <<scanVars, svcVars, provVars, lookupVars>>
    /\ UNCHANGED <<compVars, isbnVars, poolVars, mainVars, metaVars, writerVars>>


(***************************************************************************)
(* Stage.Run's work closure after the worker function returned.            *)
(***************************************************************************)
\* output <- result: the next goroutine receives the item; a stage issues
\* `go work(i)` for it, the collector counts it and calls the collector
\* function.  The sender's deferred StopThread follows.
Forward(k) ==
    /\ items[k].pc = "result"
    /\ LET next == items[k].st + 1
       IN /\ Receiving(next)
          /\ IF next = Collector
             THEN /\ items' = [items EXCEPT ![k].pc = "collecting", ![k].st = next]
                  /\ collected' = collected + 1
             ELSE /\ items' = [items EXCEPT ![k].pc = "spawned", ![k].st = next]
                  /\ UNCHANGED collected
    /\ UNCHANGED <<started, exited, quitClosed, closedChans, failCount>>
    /\ UNCHANGED <<scanVars, svcVars, provVars, lookupVars>>
    /\ UNCHANGED <<compVars, isbnVars, poolVars, mainVars, metaVars, writerVars>>

\* mutants of failHandlerRoute: the Book case does nothing; every case
\* finishes the item as if it were a Book
failHandlerRouteDropsBooks(st) == "drop"

failHandlerRouteFinishesAll(st) == "finishBook"

\* BookManager.failHandler's type switch on the failed input: the input of
\* the extract stage is a book.Book, that of the search stage a SearchTerms,
\* that of the collate stage a []book.BookResult
failHandlerRoute(st) ==
    IF st = ExtractStage THEN "finishBook" ELSE "drop"

\* BookManager.finishBook up to the lock: return when there is no writer or
\* the path is already in the processed map
finishBookCheck(path) ==
    IF ~writerSet THEN "return"
    ELSE IF isBookProcessed(path) THEN "return"
    ELSE "write"

\* mutant of FailHandler: the failure is handled but not counted
FailHandlerUncounted(k) ==
    /\ items[k].pc = "failed"
    /\ items' = [items EXCEPT ![k].pc =
                    IF failHandlerRoute(items[k].st) = "finishBook"
                    THEN (IF finishBookCheck(items[k].bk) = "write"
                          THEN "fhWrite" ELSE "discarded")
                    ELSE "dropped",
                 ![k].isbns = <<>>, ![k].results = <<>>]
    /\ UNCHANGED <<started, exited, quitClosed, closedChans, failCount, collected>>
    /\ UNCHANGED <<scanVars, svcVars, provVars, lookupVars>>
    /\ UNCHANGED <<compVars, isbnVars, poolVars, mainVars, metaVars, writerVars>>

\* wrappedFailHandler: p.failCount.Add(1), then failHandler(i, err)
FailHandler(k) ==
    /\ items[k].pc = "failed"
    /\ failCount' = failCount + 1
    /\ items' = [items EXCEPT ![k].pc =
                    IF failHandlerRoute(items[k].st) = "finishBook"
                    THEN (IF finishBookCheck(items[k].bk) = "write"
                          THEN "fhWrite" ELSE "discarded")
                    ELSE "dropped",
                 ![k].isbns = <<>>, ![k].results = <<>>]
    /\ UNCHANGED <<started, exited, quitClosed, closedChans, collected>>
    /\ UNCHANGED <<scanVars, svcVars, provVars, lookupVars>>
    /\ UNCHANGED <<compVars, isbnVars, poolVars, mainVars, metaVars, writerVars>>

\* the collector function: finishBook up to the lock
CollectorCheck(k) ==
    /\ items[k].pc = "collecting"
    /\ items' = [items EXCEPT ![k].pc =
                    IF finishBookCheck(items[k].bk) = "write"
                    THEN "colWrite" ELSE "discarded"]
    /\ UNCHANGED <<started, exited, quitClosed, closedChans, failCount, collected>>
    /\ UNCHANGED <<scanVars, svcVars, provVars, lookupVars>>
    /\ UNCHANGED <<compVars, isbnVars, poolVars, mainVars, metaVars, writerVars>>

\* BookManager.finishBook under bookStateLock:
\* bm.writer.WriteObject(&bk); bm.books[bk.Filepath] = bk
FinishBookWrite(k) ==
    /\ items[k].pc \in {"fhWrite", "colWrite"}
    /\ writerSet
    /\ LET bk == Book(items[k].bk, items[k].err)
       IN /\ written' = Append(written, bk)
          /\ books' = MapPut(books, bk.filepath, bk)
    /\ items' = [items EXCEPT ![k].pc = "finished"]
    /\ UNCHANGED <<imported, dryRun, writerSet, writerClosed, scanPc, scanExit,
                   bookCount, walkList, walkPos, waitIdx>>
    /\ UNCHANGED <<started, exited, quitClosed, closedChans, failCount, collected>>
    /\ UNCHANGED <<svcVars, provVars, lookupVars>>
    /\ UNCHANGED <<compVars, isbnVars, poolVars, mainVars, metaVars, writerVars>>

(***************************************************************************)
(* ServiceManager.watch: one probe cycle.                                  *)
(***************************************************************************)
\* TikaServer.SelfCheck always passes; TikaServer.HealthCheck asks the server
TikaSelfCheck == {TRUE}

TikaHealthCheck == BOOLEAN

\* the provider wrapper's SelfCheck always passes; its HealthCheck is the
\* provider's, and Google.HealthCheck is constant
GenericSelfCheck == {TRUE}

GoogleHealthCheck == {TRUE}

\* what SelfCheck / HealthCheck of a managed service may answer
SelfCheckAnswers(svc) == IF svc \in Extractors THEN TikaSelfCheck ELSE GenericSelfCheck

HealthCheckAnswers(svc) == IF svc \in Extractors THEN TikaHealthCheck ELSE GoogleHealthCheck

\* mutant of watch: the live set is the set of services that answered "up"
watchReinserts(live, up) == {svc \in DOMAIN up : up[svc]}

\* the live set after a cycle in which the services answered `up`
watch(live, up) == {svc \in live : up[svc]}

\* a cycle that removes nothing leaves the state as it is
Watch ==
    /\ \/ \E up \in [Extractors -> BOOLEAN] :
             /\ \A svc \in Extractors :
                   up[svc] \in {a /\ b : a \in SelfCheckAnswers(svc),
                                         b \in HealthCheckAnswers(svc)}
             /\ liveExtractors' = watch(liveExtractors, up)
             /\ liveExtractors' # liveExtractors
             /\ UNCHANGED liveProviders
       \/ \E up \in [Providers -> BOOLEAN] :
             /\ \A svc \in Providers :
                   up[svc] \in {a /\ b : a \in SelfCheckAnswers(svc),
                                         b \in HealthCheckAnswers(svc)}
             /\ liveProviders' = watch(liveProviders, up)
             /\ liveProviders' # liveProviders
             /\ UNCHANGED liveExtractors
    /\ UNCHANGED <<scanVars, pipeVars, provVars, lookupVars>>
    /\ UNCHANGED <<compVars, isbnVars, poolVars, mainVars, metaVars, writerVars>>

(***************************************************************************)
(* One run of Scan.                                                        *)
(***************************************************************************)
ScanStep ==
    \/ ScanStart
    \/ PipelineRun
    \/ WalkVisit
    \/ ScanPoll
    \/ PipelineWait
    \/ CloseFrontend
    \/ CloseStageQuit
    \/ CloseStageWait
    \/ ScanReturn

PipelineStep ==
    \/ \E g \in Goroutines : StageStart(g)
    \/ \E g \in Goroutines : StageExit(g)
    \/ \E k \in ItemIds : WorkStart(k)
    \/ \E k \in ItemIds : Extract(k)
    \/ \E k \in ItemIds : Search(k)
    \/ \E k \in ItemIds : Collate(k)
    \/ \E k \in ItemIds : Forward(k)
    \/ \E k \in ItemIds : FailHandler(k)
    \/ \E k \in ItemIds : CollectorCheck(k)
    \/ \E k \in ItemIds : FinishBookWrite(k)

Next == ScanStep \/ PipelineStep \/ Watch

Spec == Init /\ [][Next]_vars

\* The pipeline under a caller that, unlike Scan, calls p.Close() without
\* p.Wait() once it has sent its items to the frontend.
CallerClose ==
    /\ scanPc = "poll"
    /\ scanPc' = "close"
    /\ waitIdx' = 0
    /\ UNCHANGED <<books, imported, dryRun, writerSet, writerClosed, written,
                   scanExit, bookCount, walkList, walkPos>>
    /\ UNCHANGED <<pipeVars, svcVars, provVars, lookupVars>>
    /\ UNCHANGED <<compVars, isbnVars, poolVars, mainVars, metaVars, writerVars>>

PipelineNext == Next \/ CallerClose

PipelineSpec == Init /\ [][PipelineNext]_vars

SpecDup == InitDup /\ [][Next]_vars

\* the Go scheduler runs every goroutine that can take a step; the probes'
\* answers are up to the services
FairSpec == Init /\ [][Next]_vars /\ WF_vars(ScanStep) /\ WF_vars(PipelineStep)


(***************************************************************************)
(* Generic.GetBookMetadata, one findResult per step.                       *)
(*   call.pc: "idle" not called, "loop" in `for _, isbn := range allIsbns`,*)
(*            "returned"                                                   *)
(*   call.idx: position of the loop in allIsbns                            *)
(*   call.results, call.err: the values built up and returned              *)
(*   call.looked: the findResult calls made, with what each returned       *)
(*   call.calls: the number of calls of GetBookMetadata so far             *)
(***************************************************************************)
\* the ISBNs a SearchTerms may carry
Isbn10Values == {101, 102}

Isbn13Values == {131, 132}

\* mutant of allIsbns: the ISBN-13s come first
allIsbnsReversed(isbn10s, isbn13s) == isbn13s \o isbn10s

\* allIsbns := slices.Concat(isbn10s, isbn13s)
allIsbns(isbn10s, isbn13s) == isbn10s \o isbn13s

\* a fresh wrapper: enabled, nothing cached
InitMetadata ==
    /\ walkList = <<>>
    /\ InitCommon
    /\ dryRun = FALSE
    /\ books = EmptyMap

\* search calls provider.GetBookMetadata(&search), for one book after another
MetadataCall(isbn10s, isbn13s) ==
    /\ call.pc \in {"idle", "returned"}
    /\ call.calls < MaxSearches
    /\ call' = [NewCall EXCEPT !.pc = "loop", !.isbn10s = isbn10s,
                               !.isbn13s = isbn13s, !.idx = 1,
                               !.calls = call.calls + 1]
    /\ UNCHANGED <<scanVars, pipeVars, svcVars, provVars, lookupVars>>
    /\ UNCHANGED <<compVars, isbnVars, poolVars, mainVars, writerVars>>

\* one iteration of the loop: result, err := g.findResult(isbn, ...)
MetadataLookup(resp) ==
    /\ call.pc = "loop"
    /\ call.idx <= Len(allIsbns(call.isbn10s, call.isbn13s))
    /\ LET isbn == allIsbns(call.isbn10s, call.isbn13s)[call.idx]
           o == findResult(isbn, NoPath, resp, disabled, cache)
           entry == [isbn |-> isbn, result |-> o.result, err |-> o.err]
       IN /\ call' = IF o.err # NoErr
                     THEN [call EXCEPT !.pc = "returned", !.results = <<>>,
                                       !.err = o.err,
                                       !.looked = Append(call.looked, entry)]
                     ELSE [call EXCEPT !.idx = call.idx + 1,
                                       !.results = Append(call.results, o.result),
                                       !.looked = Append(call.looked, entry)]
          /\ disabled' = o.disabled
          /\ cache' = o.cache
    /\ UNCHANGED <<scanVars, pipeVars, svcVars, lookupVars>>
    /\ UNCHANGED <<compVars, isbnVars, poolVars, mainVars, writerVars>>

\* return results, nil
MetadataReturn ==
    /\ call.pc = "loop"
    /\ call.idx > Len(allIsbns(call.isbn10s, call.isbn13s))
    /\ call' = [call EXCEPT !.pc = "returned", !.err = NoErr]
    /\ UNCHANGED <<scanVars, pipeVars, svcVars, provVars, lookupVars>>
    /\ UNCHANGED <<compVars, isbnVars, poolVars, mainVars, writerVars>>

MetadataNext ==
    \/ \E isbn10s \in SeqsUpTo(Isbn10Values, MaxTerms),
          isbn13s \in SeqsUpTo(Isbn13Values, MaxTerms) :
          MetadataCall(isbn10s, isbn13s)
    \/ \E resp \in Responses : MetadataLookup(resp)
    \/ MetadataReturn

MetadataSpec == InitMetadata /\ [][MetadataNext]_vars


(***************************************************************************)
(* util.ThreadPool as the stages use it, statement by statement.           *)
(*   pool.Count[s]: ThreadPool.Count of stage s                            *)
(*   pool.loop[s]: Stage.Run of stage s holds its slot of the pool         *)
(*   pool.work[w]: goroutine w running work(i) for stage st; pc is         *)
(*       "idle"      not running                                           *)
(*       "spawned"   `go work(i)` issued, in StartThread's loop            *)
(*       "admitted"  the loop found Count < Size, before Count.Add(1)      *)
(*       "working"   past StartThread, before the deferred StopThread      *)
(***************************************************************************)
InitPool ==
    /\ walkList = <<>>
    /\ InitCommon
    /\ dryRun = FALSE
    /\ books = EmptyMap

\* Stage.Run of stage s: s.pool.StartThread() on the empty pool
LoopStartThread(s) ==
    /\ ~pool.loop[s]
    /\ pool.Count[s] < PoolSize
    /\ pool' = [pool EXCEPT !.loop[s] = TRUE, !.Count[s] = pool.Count[s] + 1]
    /\ UNCHANGED <<scanVars, pipeVars, svcVars, provVars, lookupVars>>
    /\ UNCHANGED <<compVars, isbnVars, mainVars, metaVars, writerVars>>

\* the loop of stage s receives an item: go work(i)
GoWork(w, s) ==
    /\ pool.loop[s]
    /\ pool.work[w].pc = "idle"
    /\ pool' = [pool EXCEPT !.work[w] = [pc |-> "spawned", st |-> s]]
    /\ UNCHANGED <<scanVars, pipeVars, svcVars, provVars, lookupVars>>
    /\ UNCHANGED <<compVars, isbnVars, mainVars, metaVars, writerVars>>

\* StartThread: `for pool.Count.Load() >= pool.Size` finds room and ends
StartThreadLoad(w) ==
    /\ pool.work[w].pc = "spawned"
    /\ pool.Count[pool.work[w].st] < PoolSize
    /\ pool' = [pool EXCEPT !.work[w].pc = "admitted"]
    /\ UNCHANGED <<scanVars, pipeVars, svcVars, provVars, lookupVars>>
    /\ UNCHANGED <<compVars, isbnVars, mainVars, metaVars, writerVars>>

\* StartThread: pool.wait.Add(1); pool.Count.Add(1)
StartThreadAdd(w) ==
    /\ pool.work[w].pc = "admitted"
    /\ pool' = [pool EXCEPT !.work[w].pc = "working",
                             !.Count[pool.work[w].st] = pool.Count[pool.work[w].st] + 1]
    /\ UNCHANGED <<scanVars, pipeVars, svcVars, provVars, lookupVars>>
    /\ UNCHANGED <<compVars, isbnVars, mainVars, metaVars, writerVars>>

\* the worker function returns; the deferred StopThread: pool.Count.Add(-1)
StopThread(w) ==
    /\ pool.work[w].pc = "working"
    /\ pool' = [pool EXCEPT !.work[w].pc = "idle",
                             !.Count[pool.work[w].st] = pool.Count[pool.work[w].st] - 1]
    /\ UNCHANGED <<scanVars, pipeVars, svcVars, provVars, lookupVars>>
    /\ UNCHANGED <<compVars, isbnVars, mainVars, metaVars, writerVars>>

PoolNext ==
    \/ \E s \in Stages : LoopStartThread(s)
    \/ \E w \in 1..NumWorkers, s \in Stages : GoWork(w, s)
    \/ \E w \in 1..NumWorkers : StartThreadLoad(w)
    \/ \E w \in 1..NumWorkers : StartThreadAdd(w)
    \/ \E w \in 1..NumWorkers : StopThread(w)

PoolSpec == InitPool /\ [][PoolNext]_vars


(***************************************************************************)
(* util.JsonStreamWriter.                                                  *)
(*   stream.file: what has been written to the file, token by token        *)
(*   stream.Input: the keys of the items queued on the Input channel       *)
(*   stream.closePc: "open", "waiting" (Close has closed Input and waits   *)
(*                   for the writer goroutine), "closed"                   *)
(*   stream.accepted: the number of items taken by WriteObject or written  *)
(*                   by WriteBatch                                         *)
(*   stream.handed: the keys sent to Input, in the order they were sent    *)
(*   stream.direct: the positions of the file WriteBatch wrote             *)
(* A write the operating system refuses makes the writer goroutine panic   *)
(* and ends the process; the model follows the writes that succeed.        *)
(***************************************************************************)
\* mutant of formatBuffer: the comma is written before every item
formatBufferAlwaysComma(key, initialized) == <<Comma, Entry(key)>>

\* formatBuffer: `,"key": data` once the stream is initialized, else
\* `"key": data`
formatBuffer(key, initialized) ==
    IF initialized THEN <<Comma, Entry(key)>> ELSE <<Entry(key)>>

\* the loop of WriteBatch over items[k..]: the text written
RECURSIVE formatBatch(_, _, _)
formatBatch(batch, k, initialized) ==
    IF k > Len(batch) THEN <<>>
    ELSE formatBuffer(batch[k], initialized) \o formatBatch(batch, k + 1, TRUE)

InitWriter ==
    /\ walkList = <<>>
    /\ InitCommon
    /\ dryRun = FALSE
    /\ books = EmptyMap

\* mutant of chanSend: the channel hands out the newest item first
chanSendFront(q, item) == <<item>> \o q

\* stream.Input <- item: a buffered channel is a queue
chanSend(q, item) == Append(q, item)

\* stream.convert(obj) as main builds it: the item keyed by the book's path,
\* or the zero item (empty key, no data) when json.Marshal fails
convert(key, marshals) == IF marshals THEN key ELSE NoPath

\* WriteObject: item, err := stream.convert(obj); a failure is logged; the
\* item is sent to Input
WriteObject(key, marshals) ==
    /\ ~stream.inputClosed
    /\ stream.accepted < MaxWrites
    /\ Len(stream.Input) < InputCapacity
    /\ stream' = [stream EXCEPT
          !.Input = chanSend(stream.Input, convert(key, marshals)),
          !.accepted = stream.accepted + 1,
          !.handed = Append(stream.handed, convert(key, marshals))]
    /\ UNCHANGED <<scanVars, pipeVars, svcVars, provVars, lookupVars>>
    /\ UNCHANGED <<compVars, isbnVars, poolVars, mainVars, metaVars>>

\* the writer goroutine receives an item and calls WriteItem
WriteItem ==
    /\ stream.Input # <<>>
    /\ stream' = [stream EXCEPT
          !.file = stream.file \o formatBuffer(Head(stream.Input), stream.isInitialized),
          !.isInitialized = TRUE,
          !.Input = Tail(stream.Input)]
    /\ UNCHANGED <<scanVars, pipeVars, svcVars, provVars, lookupVars>>
    /\ UNCHANGED <<compVars, isbnVars, poolVars, mainVars, metaVars>>

\* the writer goroutine finds Input closed and empty: waiter.Done()
WriterExit ==
    /\ stream.Input = <<>>
    /\ stream.inputClosed
    /\ ~stream.writerDone
    /\ stream' = [stream EXCEPT !.writerDone = TRUE]
    /\ UNCHANGED <<scanVars, pipeVars, svcVars, provVars, lookupVars>>
    /\ UNCHANGED <<compVars, isbnVars, poolVars, mainVars, metaVars>>

\* WriteBatch(batch), under the lock; once the file handle is closed
\* WriteString fails and nothing reaches the file
WriteBatch(batch) ==
    /\ stream.accepted + Len(batch) <= MaxWrites
    /\ stream' = IF stream.closePc = "closed"
                 THEN [stream EXCEPT
                         !.isInitialized = stream.isInitialized \/ Len(batch) > 0]
                 ELSE [stream EXCEPT
                         !.file = stream.file
                                  \o formatBatch(batch, 1, stream.isInitialized),
                         !.isInitialized = stream.isInitialized \/ Len(batch) > 0,
                         !.accepted = stream.accepted + Len(batch),
                         !.direct = stream.direct \cup
                            (Len(stream.file) + 1) ..
                            (Len(stream.file)
                             + Len(formatBatch(batch, 1, stream.isInitialized)))]
    /\ stream' # stream
    /\ UNCHANGED <<scanVars, pipeVars, svcVars, provVars, lookupVars>>
    /\ UNCHANGED <<compVars, isbnVars, poolVars, mainVars, metaVars>>

\* Close, first part: close(stream.Input)
CloseInput ==
    /\ stream.closePc = "open"
    /\ stream' = [stream EXCEPT !.inputClosed = TRUE, !.closePc = "waiting"]
    /\ UNCHANGED <<scanVars, pipeVars, svcVars, provVars, lookupVars>>
    /\ UNCHANGED <<compVars, isbnVars, poolVars, mainVars, metaVars>>

\* mutant of waiterWait: Close does not wait for the writer goroutine
waiterWaitSkipped == TRUE

\* stream.waiter.Wait() can return: the writer goroutine has called Done
waiterWait == stream.writerDone

\* Close, second part: waiter.Wait() has returned; under the lock "}" is
\* written and the file handle is closed
CloseFile ==
    /\ stream.closePc = "waiting"
    /\ waiterWait
    /\ stream' = [stream EXCEPT !.file = Append(stream.file, CloseBrace),
                                 !.closePc = "closed"]
    /\ UNCHANGED <<scanVars, pipeVars, svcVars, provVars, lookupVars>>
    /\ UNCHANGED <<compVars, isbnVars, poolVars, mainVars, metaVars>>

WriterNext ==
    \/ \E key \in Paths, marshals \in BOOLEAN : WriteObject(key, marshals)
    \/ WriteItem
    \/ WriterExit
    \/ \E batch \in SeqsUpTo(Paths, MaxBatch) : WriteBatch(batch)
    \/ CloseInput
    \/ CloseFile

WriterSpec == InitWriter /\ [][WriterNext]_vars


(***************************************************************************)
(* ISBN utilities: book.IsIsbnCandidate, ISBN10.IsValid, ISBN13.IsValid,   *)
(* util.IdentifyIsbn10s and util.IdentifyIsbn13s.  A string is the         *)
(* sequence of its characters, a character is its code point (the texts    *)
(* are ASCII, so bytes and runes coincide).                                *)
(***************************************************************************)
Char0 == 48
Char9 == 57
CharX == 88
CharLowerX == CharX + 32
CharLowerA == Char0 + 49
Hyphen == 45
Space == 32
Newline == 10

\* the string of the decimal digits ds
D(ds) == [i \in DOMAIN ds |-> Char0 + ds[i]]

\* strings.ToUpper on one character
ToUpperChar(c) == IF c >= 97 /\ c <= 122 THEN c - 32 ELSE c

ToUpper(s) == [i \in DOMAIN s |-> ToUpperChar(s[i])]

IsDigit(c) == Char0 <= c /\ c <= Char9

badIsbns == {D(<<0, 1, 2, 3, 4, 5, 6, 7, 8, 9>>)}
                \cup {[i \in 1..10 |-> Char0 + d] : d \in 0..9}

\* mutant of IsIsbnCandidate: the blacklist is not consulted
IsIsbnCandidateNoBlacklist(s) ==
    IF Len(s) # 10 /\ Len(s) # 13
    THEN FALSE
    ELSE ~ \E i \in DOMAIN s :
            \/ ToUpperChar(s[i]) # CharX /\ ToUpperChar(s[i]) > Char9
            \/ ToUpperChar(s[i]) # CharX /\ ToUpperChar(s[i]) < Char0

\* mutant of IsIsbnCandidate: only thirteen characters are accepted
IsIsbnCandidateThirteenOnly(s) ==
    IF Len(s) # 13
    THEN FALSE
    ELSE IF \E i \in DOMAIN s :
              \/ ToUpperChar(s[i]) # CharX /\ ToUpperChar(s[i]) > Char9
              \/ ToUpperChar(s[i]) # CharX /\ ToUpperChar(s[i]) < Char0
    THEN FALSE
    ELSE s \notin badIsbns

\* book.IsIsbnCandidate
IsIsbnCandidate(s) ==
    IF Len(s) # 10 /\ Len(s) # 13
    THEN FALSE
    ELSE IF \E i \in DOMAIN s :
              \/ ToUpperChar(s[i]) # CharX /\ ToUpperChar(s[i]) > Char9
              \/ ToUpperChar(s[i]) # CharX /\ ToUpperChar(s[i]) < Char0
    THEN FALSE
    ELSE s \notin badIsbns

\* ISBN10.IsValid: the loop from byte index i on, with the sum so far
RECURSIVE ISBN10Loop(_, _, _)
ISBN10Loop(s, i, sum) ==
    IF i >= Len(s)
    THEN sum % 11 = 0
    ELSE LET c == s[i + 1]
             multiplier == 10 - i
         IN IF IsDigit(c)
            THEN ISBN10Loop(s, i + 1, sum + multiplier * (c - Char0))
            ELSE IF c = CharX
            THEN IF i # Len(s) - 1
                 THEN FALSE
                 ELSE ISBN10Loop(s, i + 1, sum + 10)
            ELSE ISBN10Loop(s, i + 1, sum)

\* mutant of ISBN10IsValid: an X is accepted in any position
RECURSIVE ISBN10LoopAnyX(_, _, _)
ISBN10LoopAnyX(s, i, sum) ==
    IF i >= Len(s)
    THEN sum % 11 = 0
    ELSE IF IsDigit(s[i + 1])
    THEN ISBN10LoopAnyX(s, i + 1, sum + (10 - i) * (s[i + 1] - Char0))
    ELSE IF s[i + 1] = CharX
    THEN ISBN10LoopAnyX(s, i + 1, sum + 10)
    ELSE ISBN10LoopAnyX(s, i + 1, sum)

ISBN10IsValidAnyX(s) == ISBN10LoopAnyX(s, 0, 0)

ISBN10IsValid(s) == ISBN10Loop(s, 0, 0)

\* ISBN13.IsValid: the sum as an integer, before the wrap of uint
RECURSIVE ISBN13Sum(_, _, _)
ISBN13Sum(s, i, multiplier) ==
    IF i > Len(s)
    THEN 0
    ELSE multiplier * (s[i] - Char0)
            + ISBN13Sum(s, i + 1, IF multiplier = 1 THEN 3 ELSE 1)

\* sum % 10 for a 64-bit uint sum: uint(c - '0') of a character below '0'
\* wraps, so a negative integer sum e stands for e + 2^64, and
\* 2^64 = 18446744073709551616 leaves 6 when divided by 10
UintMod10(e) == IF e >= 0 THEN e % 10 ELSE ((e % 10) + 6) % 10

ISBN13IsValid(s) == UintMod10(ISBN13Sum(s, 1, 1)) = 0

\* the two patterns: ([0-9\-\s]+[0-9Xx]) and ([0-9\-\s]+[0-9])
Isbn10Pattern == "([0-9\\-\\s]+[0-9Xx])"
Isbn13Pattern == "([0-9\\-\\s]+[0-9])"

\* \s of the regexp package: [\t\n\f\r ]
IsSpace(c) == c \in {9, 10, 12, 13, Space}

\* [0-9\-\s]
InBody(c) == IsDigit(c) \/ c = Hyphen \/ IsSpace(c)

\* the last character class of the pattern
InTail(pattern, c) ==
    IF pattern = Isbn10Pattern
    THEN IsDigit(c) \/ c = CharX \/ c = CharLowerX
    ELSE IsDigit(c)

\* the end of the match of pattern that starts at position p of text, 0 when
\* there is none: the greedy body takes as many characters as it can and
\* gives back until the tail class matches the next character
MatchEnd(text, p, pattern) ==
    LET ends == {e \in (p + 1)..Len(text) :
                    /\ \A j \in p..(e - 1) : InBody(text[j])
                    /\ InTail(pattern, text[e])}
    IN IF ends = {} THEN 0 ELSE CHOOSE e \in ends : \A f \in ends : f <= e

\* regexp.FindAllString(text, -1): the leftmost match, then the leftmost match
\* after its end, and so on
RECURSIVE FindAllFrom(_, _, _, _)
FindAllFrom(text, p, pattern, acc) ==
    IF p > Len(text)
    THEN acc
    ELSE LET e == MatchEnd(text, p, pattern)
         IN IF e = 0
            THEN FindAllFrom(text, p + 1, pattern, acc)
            ELSE FindAllFrom(text, e + 1, pattern, Append(acc, SubSeq(text, p, e)))

FindAllString(text, pattern) == FindAllFrom(text, 1, pattern, <<>>)

ToUpperAll(q) == [i \in DOMAIN q |-> ToUpper(q[i])]

\* ws.ReplaceAll(occ, ""): every run of whitespace and hyphens is removed
IsNotWs(c) == ~(IsSpace(c) \/ c = Hyphen)

Clean(occ) == SelectSeq(occ, IsNotWs)

\* mutant of identifyIsbns: a value found before is not returned again
RECURSIVE DropRepeats(_, _)
DropRepeats(q, acc) ==
    IF q = <<>>
    THEN acc
    ELSE DropRepeats(Tail(q), IF \E i \in DOMAIN acc : acc[i] = Head(q)
                              THEN acc ELSE Append(acc, Head(q)))

identifyIsbnsOnce(text, pattern) ==
    LET occurrences == FindAllString(text, pattern)
        cleaned == [i \in DOMAIN occurrences |-> Clean(occurrences[i])]
    IN DropRepeats(ToUpperAll(SelectSeq(cleaned, IsIsbnCandidate)), <<>>)

\* util.identifyIsbns: lo.FilterMap over the occurrences
identifyIsbns(text, pattern) ==
    LET occurrences == FindAllString(text, pattern)
        cleaned == [i \in DOMAIN occurrences |-> Clean(occurrences[i])]
    IN ToUpperAll(SelectSeq(cleaned, IsIsbnCandidate))

IdentifyIsbn10s(text) == SelectSeq(identifyIsbns(text, Isbn10Pattern), ISBN10IsValid)

IdentifyIsbn13s(text) == SelectSeq(identifyIsbns(text, Isbn13Pattern), ISBN13IsValid)

\* The arguments.  Strings: the strings of the tests, the blacklist and a few
\* more, each also with one character replaced, one character appended and
\* the last character removed.
Alphabet == (Char0..Char9) \cup {CharX, CharLowerX, CharLowerA, Hyphen, Space}

BaseStrings ==
    badIsbns \cup
    { D(<<1, 7, 1, 8, 5, 0, 1, 2, 6, 9>>),
      D(<<2, 0, 2, 0, 0, 5, 2, 5, 0, 4>>),
      D(<<0, 8, 0, 4, 4, 2, 9, 5, 7>>) \o <<CharX>>,
      D(<<9, 7, 8, 1, 7, 1, 8, 5, 0, 1, 2, 6, 3>>),
      D(<<9, 7, 8, 1, 7, 1, 8, 5, 0, 1, 2, 7, 0>>),
      D(<<1, 2, 3, 4, 5, 6, 7, 8, 9, 1, 1, 2, 3>>),
      D(<<1, 2, 3>>),
      D(<<1, 1, 1, 1, 1, 1, 1, 1, 1, 1, 1>>),
      <<>> }

Variants(s) ==
    {s}
    \cup {[s EXCEPT ![i] = c] : i \in DOMAIN s, c \in Alphabet}
    \cup {Append(s, c) : c \in Alphabet}
    \cup (IF s = <<>> THEN {} ELSE {SubSeq(s, 1, Len(s) - 1)})

IsbnStrings == UNION {Variants(s) : s \in BaseStrings}

\* Texts: up to MaxPieces pieces one after the other
Pieces ==
    { D(<<1, 7, 1, 8, 5, 0, 1, 2, 6, 9>>),
      D(<<2, 0, 2, 0, 0, 5, 2, 5, 0, 3>>),
      D(<<0, 8, 0, 4, 4, 2, 9, 5, 7>>) \o <<CharLowerX>>,
      D(<<0, 0, 0, 0, 0, 0, 0, 0, 0, 0>>),
      D(<<9, 7, 8, 1, 7, 1, 8, 5, 0, 1, 2, 6, 3>>),
      D(<<9, 7, 8>>) \o <<Hyphen>> \o D(<<1>>) \o <<Hyphen>> \o D(<<7, 1, 8, 5>>)
          \o <<Hyphen>> \o D(<<0, 1, 2, 6>>) \o <<Hyphen>> \o D(<<3>>),
      D(<<1, 2, 3, 4, 5, 6, 7, 8, 9, 1, 1, 2, 3>>),
      D(<<1, 7, 1, 8, 5>>),
      <<CharLowerA, Space>>,
      <<Space, Newline, Space>>,
      <<CharX>>,
      <<CharLowerA>> }

RECURSIVE Concat(_)
Concat(pieces) == IF pieces = <<>> THEN <<>> ELSE Head(pieces) \o Concat(Tail(pieces))

IsbnTexts == {Concat(ps) : ps \in SeqsUpTo(Pieces, MaxPieces)}

InitIsbn ==
    /\ walkList = <<>>
    /\ books = EmptyMap
    /\ imported = {}
    /\ cacheFile = EmptyMap
    /\ retry = FALSE
    /\ scanPc = "start"
    /\ InitRest
    /\ dryRun = FALSE
    /\ \E text \in IsbnStrings \cup IsbnTexts : isbnCall = [IdleIsbn EXCEPT !.text = text]
    /\ IdleComp

\* book.IsIsbnCandidate(text)
CallIsIsbnCandidate ==
    /\ isbnCall.fn = "none"
    /\ isbnCall' = [isbnCall EXCEPT !.fn = "IsIsbnCandidate", !.ok = IsIsbnCandidate(isbnCall.text)]
    /\ UNCHANGED <<scanVars, pipeVars, svcVars, provVars, lookupVars>>
    /\ UNCHANGED <<compVars, mainVars, metaVars, writerVars, poolVars>>

\* isbn := book.ISBN10(text); isbn.IsValid()
CallISBN10IsValid ==
    /\ isbnCall.fn = "none"
    /\ isbnCall' = [isbnCall EXCEPT !.fn = "ISBN10.IsValid", !.ok = ISBN10IsValid(isbnCall.text)]
    /\ UNCHANGED <<scanVars, pipeVars, svcVars, provVars, lookupVars>>
    /\ UNCHANGED <<compVars, mainVars, metaVars, writerVars, poolVars>>

\* isbn := book.ISBN13(text); isbn.IsValid()
CallISBN13IsValid ==
    /\ isbnCall.fn = "none"
    /\ isbnCall' = [isbnCall EXCEPT !.fn = "ISBN13.IsValid", !.ok = ISBN13IsValid(isbnCall.text)]
    /\ UNCHANGED <<scanVars, pipeVars, svcVars, provVars, lookupVars>>
    /\ UNCHANGED <<compVars, mainVars, metaVars, writerVars, poolVars>>

\* util.IdentifyIsbn10s(text)
CallIdentifyIsbn10s ==
    /\ isbnCall.fn = "none"
    /\ isbnCall' = [isbnCall EXCEPT !.fn = "IdentifyIsbn10s", !.found = IdentifyIsbn10s(isbnCall.text)]
    /\ UNCHANGED <<scanVars, pipeVars, svcVars, provVars, lookupVars>>
    /\ UNCHANGED <<compVars, mainVars, metaVars, writerVars, poolVars>>

\* util.IdentifyIsbn13s(text)
CallIdentifyIsbn13s ==
    /\ isbnCall.fn = "none"
    /\ isbnCall' = [isbnCall EXCEPT !.fn = "IdentifyIsbn13s", !.found = IdentifyIsbn13s(isbnCall.text)]
    /\ UNCHANGED <<scanVars, pipeVars, svcVars, provVars, lookupVars>>
    /\ UNCHANGED <<compVars, mainVars, metaVars, writerVars, poolVars>>

IsbnNext ==
    \/ CallIsIsbnCandidate
    \/ CallISBN10IsValid
    \/ CallISBN13IsValid
    \/ CallIdentifyIsbn10s
    \/ CallIdentifyIsbn13s

IsbnSpec == InitIsbn /\ [][IsbnNext]_vars


(***************************************************************************)
(* book.ChooseBestResult on lists of results of any confidence.            *)
(***************************************************************************)
\* the confidences a result may carry: below zero, zero, two positive values,
\* and NaN
ResultsOfAnyConfidence ==
    {[filepath |-> 1, confidence |-> c, isNaN |-> FALSE] : c \in -1..2}
        \cup {[filepath |-> 1, confidence |-> 0, isNaN |-> TRUE]}

\* the BookManager is built and nothing runs
InitAtRest ==
    /\ walkList = <<>>
    /\ books = EmptyMap
    /\ imported = {}
    /\ cacheFile = EmptyMap
    /\ retry = FALSE
    /\ scanPc = "start"
    /\ InitRest
    /\ dryRun = FALSE
    /\ isbnCall = IdleIsbn

InitChoose ==
    /\ InitAtRest
    /\ repeat = IdleRepeat
    /\ engine = IdleEngine
    /\ cycle = IdleCycle
    /\ budget = IdleBudget
    /\ \E results \in SeqsUpTo(ResultsOfAnyConfidence, MaxResults) :
          chosen = [IdleChoice EXCEPT !.results = results]

\* collate: result, err := book.ChooseBestResult(results), the error as
\* collate wraps it
CallChooseBestResult ==
    /\ chosen.pc = "idle"
    /\ chosen' = [chosen EXCEPT !.pc = "returned",
                                !.best = ChooseBestResult(chosen.results),
                                !.err = IF ChooseBestResult(chosen.results) = 0
                                        THEN ErrCollate ELSE NoErr]
    /\ UNCHANGED <<scanVars, pipeVars, svcVars, provVars, lookupVars>>
    /\ UNCHANGED <<mainVars, metaVars, writerVars, poolVars, isbnVars>>
    /\ UNCHANGED <<engine, cycle, budget, repeat>>

ChooseNext == CallChooseBestResult

ChooseSpec == InitChoose /\ [][ChooseNext]_vars


(***************************************************************************)
(* Pipeline.Run for any number of stages, with a collector.  Goroutine i   *)
(* in 1..n is stage i, goroutine n + 1 the collector; engine.launched are  *)
(* the goroutines Run issued a `go` statement for.  An item is "out"       *)
(* before it is sent, at stage `at` it is in the worker ("work"), blocked  *)
(* in `output <- result` ("push") or failed ("failed"), and "collected"    *)
(* once the collector has passed it to the collector function.             *)
(***************************************************************************)
NewEngineItem == [pc |-> "out", at |-> 0]

InitEngine ==
    /\ InitAtRest
    /\ repeat = IdleRepeat
    /\ chosen = IdleChoice
    /\ cycle = IdleCycle
    /\ budget = IdleBudget
    /\ \E n \in 1..MaxStageCount :
          engine = [IdleEngine EXCEPT !.n = n,
                                      !.its = [k \in 1..MaxItems |-> NewEngineItem]]

\* the goroutines Pipeline.Run launches for n stage descriptions: with one
\* stage Run returns after `go stage.Run(p.Frontend, p.Backend, ...)`; with
\* more it launches every stage and then the collector
RunLaunches(n) ==
    IF n = 0 THEN {}
    ELSE IF n = 1 THEN {1}
    ELSE (1..n) \cup {n + 1}

EngineRun ==
    /\ engine.launched = {}
    /\ engine' = [engine EXCEPT !.launched = RunLaunches(engine.n)]
    /\ UNCHANGED <<scanVars, pipeVars, svcVars, provVars, lookupVars>>
    /\ UNCHANGED <<mainVars, metaVars, writerVars, poolVars, isbnVars>>
    /\ UNCHANGED <<chosen, cycle, budget, repeat>>

\* p.Frontend <- item: the first stage's loop receives it and dispatches work
EngineSend(k) ==
    /\ 1 \in engine.launched
    /\ engine.its[k].pc = "out"
    /\ engine' = [engine EXCEPT !.its[k] = [pc |-> "work", at |-> 1]]
    /\ UNCHANGED <<scanVars, pipeVars, svcVars, provVars, lookupVars>>
    /\ UNCHANGED <<mainVars, metaVars, writerVars, poolVars, isbnVars>>
    /\ UNCHANGED <<chosen, cycle, budget, repeat>>

\* the worker function returns: a result to push, or a failure
EngineWork(k, ok) ==
    /\ engine.its[k].pc = "work"
    /\ engine' = [engine EXCEPT !.its[k].pc = IF ok THEN "push" ELSE "failed"]
    /\ UNCHANGED <<scanVars, pipeVars, svcVars, provVars, lookupVars>>
    /\ UNCHANGED <<mainVars, metaVars, writerVars, poolVars, isbnVars>>
    /\ UNCHANGED <<chosen, cycle, budget, repeat>>

\* output <- result completes: the goroutine reading that channel, the next
\* stage or after the last stage the collector on the backend, receives it
EngineReceive(k) ==
    /\ engine.its[k].pc = "push"
    /\ (engine.its[k].at + 1) \in engine.launched
    /\ IF engine.its[k].at = engine.n
       THEN engine' = [engine EXCEPT !.its[k].pc = "collected",
                                     !.count = engine.count + 1]
       ELSE engine' = [engine EXCEPT !.its[k] = [pc |-> "work",
                                                 at |-> engine.its[k].at + 1]]
    /\ UNCHANGED <<scanVars, pipeVars, svcVars, provVars, lookupVars>>
    /\ UNCHANGED <<mainVars, metaVars, writerVars, poolVars, isbnVars>>
    /\ UNCHANGED <<chosen, cycle, budget, repeat>>

EngineNext ==
    \/ EngineRun
    \/ \E k \in 1..MaxItems : EngineSend(k)
    \/ \E k \in 1..MaxItems, ok \in BOOLEAN : EngineWork(k, ok)
    \/ \E k \in 1..MaxItems : EngineReceive(k)

EngineSpec == InitEngine /\ [][EngineNext]_vars

\* every goroutine that can take a step eventually takes it
FairEngineSpec == EngineSpec /\ WF_vars(EngineNext)


(***************************************************************************)
(* ServiceManager.watch, one check per step.  cycle.services is            *)
(* dd.services in registration order, cycle.live the keys of               *)
(* dd.liveServices.  pc: "sleep" between cycles, "self" before             *)
(* service.SelfCheck() of services[idx], "health" before its               *)
(* HealthCheck().  before is the live set when the cycle began, log the    *)
(* checks of the cycle in call order, cycles the cycles begun.             *)
(***************************************************************************)
\* the services Manage registered: distinct names, in any order
ManagedServices ==
    {q \in SeqsUpTo(1..MaxServices, MaxServices) :
        \A i, j \in DOMAIN q : i # j => q[i] # q[j]}

InitWatch ==
    /\ InitAtRest
    /\ repeat = IdleRepeat
    /\ chosen = IdleChoice
    /\ engine = IdleEngine
    /\ budget = IdleBudget
    /\ \E q \in ManagedServices :
          cycle = [services |-> q, live |-> {q[i] : i \in DOMAIN q}, pc |-> "sleep",
                   idx |-> 0, before |-> {}, log |-> <<>>, cycles |-> 0]

\* mutant of afterCheck: a service that is down stays in the live set
afterCheckKeeps(live, svc, up) == live

\* `if !up { delete(dd.liveServices, service.Name()) }`
afterCheck(live, svc, up) == IF up THEN live ELSE live \ {svc}

\* the position after the check of services[idx] is done
nextService(c) ==
    IF c.idx = Len(c.services)
    THEN [c EXCEPT !.pc = "sleep", !.idx = 0]
    ELSE [c EXCEPT !.pc = "self", !.idx = c.idx + 1]

\* time.Sleep(dd.healthCheckInterval) is over: `for _, service := range
\* dd.services` begins
WatchBegin ==
    /\ cycle.pc = "sleep"
    /\ cycle.cycles < MaxCycles
    /\ cycle' = nextService([cycle EXCEPT !.before = cycle.live, !.log = <<>>,
                                          !.cycles = cycle.cycles + 1])
    /\ UNCHANGED <<scanVars, pipeVars, svcVars, provVars, lookupVars>>
    /\ UNCHANGED <<mainVars, metaVars, writerVars, poolVars, isbnVars>>
    /\ UNCHANGED <<chosen, engine, budget, repeat>>

\* up, reason := service.SelfCheck()
WatchSelfCheck(up) ==
    /\ cycle.pc = "self"
    /\ LET svc == cycle.services[cycle.idx]
           logged == [cycle EXCEPT !.log = Append(cycle.log,
                                       [svc |-> svc, check |-> "SelfCheck", up |-> up])]
       IN cycle' = IF up
                   THEN [logged EXCEPT !.pc = "health"]
                   ELSE nextService([logged EXCEPT
                                        !.live = afterCheck(cycle.live, svc, up)])
    /\ UNCHANGED <<scanVars, pipeVars, svcVars, provVars, lookupVars>>
    /\ UNCHANGED <<mainVars, metaVars, writerVars, poolVars, isbnVars>>
    /\ UNCHANGED <<chosen, engine, budget, repeat>>

\* up, reason = service.HealthCheck()
WatchHealthCheck(up) ==
    /\ cycle.pc = "health"
    /\ LET svc == cycle.services[cycle.idx]
           logged == [cycle EXCEPT !.log = Append(cycle.log,
                                       [svc |-> svc, check |-> "HealthCheck", up |-> up])]
       IN cycle' = nextService([logged EXCEPT
                                   !.live = afterCheck(cycle.live, svc, up)])
    /\ UNCHANGED <<scanVars, pipeVars, svcVars, provVars, lookupVars>>
    /\ UNCHANGED <<mainVars, metaVars, writerVars, poolVars, isbnVars>>
    /\ UNCHANGED <<chosen, engine, budget, repeat>>

WatchNext ==
    \/ WatchBegin
    \/ \E up \in BOOLEAN : WatchSelfCheck(up)
    \/ \E up \in BOOLEAN : WatchHealthCheck(up)

WatchSpec == InitWatch /\ [][WatchNext]_vars


(***************************************************************************)
(* The thread budget NewBookManager gives the pipeline, the pool size      *)
(* Pipeline.Run and NewStage derive from it for each of the three stages,  *)
(* and the extract stage's pool under that size.  budget.bks[k] is         *)
(* "unsent", "spawned" (`go work(i)` issued, in StartThread), "working"    *)
(* (inside the worker function) or "done".                                 *)
(***************************************************************************)
\* NewBookManager: threads after the automatic count, the cap and the
\* rounding to an even number
threadBudget(threads) ==
    LET t0 == IF threads = 0 THEN bestThreadCount ELSE threads
        t1 == IF t0 > ThreadCap THEN ThreadCap ELSE t0
    IN IF t1 % 2 = 1 THEN t1 + 1 ELSE t1

\* Pipeline.Run and NewStage for the three stages: Size of a stage's pool
stagePoolSize(total) == (total \div NumStages) + 1

\* the thread counts asked for: 0 (automatic), small ones, and around the cap
RequestedThreads == (0..MaxThreads) \cup ((ThreadCap - 1)..(ThreadCap + 1))

InitBudget ==
    /\ InitAtRest
    /\ repeat = IdleRepeat
    /\ chosen = IdleChoice
    /\ engine = IdleEngine
    /\ cycle = IdleCycle
    /\ \E threads \in RequestedThreads :
          budget = [pc |-> "built", threads |-> threads,
                    Size |-> stagePoolSize(threadBudget(threads)), Count |-> 0,
                    loop |-> FALSE, bks |-> [k \in 1..MaxBooks |-> "unsent"]]

\* Stage.Run of the extract stage: s.pool.StartThread()
BudgetLoopStart ==
    /\ budget.pc = "built"
    /\ ~budget.loop
    /\ budget.Count < budget.Size
    /\ budget' = [budget EXCEPT !.loop = TRUE, !.Count = budget.Count + 1]
    /\ UNCHANGED <<scanVars, pipeVars, svcVars, provVars, lookupVars>>
    /\ UNCHANGED <<mainVars, metaVars, writerVars, poolVars, isbnVars>>
    /\ UNCHANGED <<chosen, engine, cycle, repeat>>

\* bm.pipe.Frontend <- book: the loop receives it and issues `go work(i)`
BudgetSend(k) ==
    /\ budget.loop
    /\ budget.bks[k] = "unsent"
    /\ budget' = [budget EXCEPT !.bks[k] = "spawned"]
    /\ UNCHANGED <<scanVars, pipeVars, svcVars, provVars, lookupVars>>
    /\ UNCHANGED <<mainVars, metaVars, writerVars, poolVars, isbnVars>>
    /\ UNCHANGED <<chosen, engine, cycle, repeat>>

\* work(i): s.pool.StartThread() finds Count < Size; the worker function
\* is entered
BudgetAdmit(k) ==
    /\ budget.bks[k] = "spawned"
    /\ budget.Count < budget.Size
    /\ budget' = [budget EXCEPT !.bks[k] = "working", !.Count = budget.Count + 1]
    /\ UNCHANGED <<scanVars, pipeVars, svcVars, provVars, lookupVars>>
    /\ UNCHANGED <<mainVars, metaVars, writerVars, poolVars, isbnVars>>
    /\ UNCHANGED <<chosen, engine, cycle, repeat>>

\* the work closure returns: the deferred s.pool.StopThread()
BudgetStop(k) ==
    /\ budget.bks[k] = "working"
    /\ budget' = [budget EXCEPT !.bks[k] = "done", !.Count = budget.Count - 1]
    /\ UNCHANGED <<scanVars, pipeVars, svcVars, provVars, lookupVars>>
    /\ UNCHANGED <<mainVars, metaVars, writerVars, poolVars, isbnVars>>
    /\ UNCHANGED <<chosen, engine, cycle, repeat>>

BudgetNext ==
    \/ BudgetLoopStart
    \/ \E k \in 1..MaxBooks : BudgetSend(k)
    \/ \E k \in 1..MaxBooks : BudgetAdmit(k)
    \/ \E k \in 1..MaxBooks : BudgetStop(k)

BudgetSpec == InitBudget /\ [][BudgetNext]_vars

\* every goroutine that can take a step eventually takes it
FairBudgetSpec == BudgetSpec /\ WF_vars(BudgetNext)


(***************************************************************************)
(* One wrapper over an inner provider that answers each ISBN the same way  *)
(* every time, called again and again by one caller.  repeat.inner is the  *)
(* inner provider's answer per ISBN; repeat.log has one entry per call:    *)
(* the kind of call, the ISBNs asked for, g.disabled when the call         *)
(* started, and the results and error the call returned.                   *)
(***************************************************************************)
InitRepeat ==
    /\ InitAtRest
    /\ chosen = IdleChoice
    /\ engine = IdleEngine
    /\ cycle = IdleCycle
    /\ budget = IdleBudget
    /\ \E inner \in [Isbn10Values -> Responses] :
          repeat = [pc |-> "ready", inner |-> inner, log |-> <<>>]

\* g.findResult(isbn, filePath) from start to return
RepeatFindResult(isbn) ==
    /\ repeat.pc = "ready"
    /\ Len(repeat.log) < MaxRepeats
    /\ LET o == findResult(isbn, NoPath, repeat.inner[isbn], disabled, cache)
       IN /\ repeat' = [repeat EXCEPT !.log = Append(@,
                [kind |-> "findResult", isbns |-> <<isbn>>, enabled |-> ~disabled,
                 results |-> <<o.result>>, err |-> o.err])]
          /\ disabled' = o.disabled
          /\ cache' = o.cache
    /\ UNCHANGED <<scanVars, pipeVars, svcVars, lookupVars>>
    /\ UNCHANGED <<mainVars, metaVars, writerVars, poolVars, isbnVars>>
    /\ UNCHANGED <<chosen, engine, cycle, budget>>

\* g.GetBookMetadata(&search) from start to return
RepeatGetBookMetadata(isbn10s) ==
    /\ repeat.pc = "ready"
    /\ Len(repeat.log) < MaxRepeats
    /\ LET isbns == allIsbns(isbn10s, <<>>)
           o == GetBookMetadata(isbns, NoPath,
                                [k \in DOMAIN isbns |-> repeat.inner[isbns[k]]],
                                disabled, cache)
       IN /\ repeat' = [repeat EXCEPT !.log = Append(@,
                [kind |-> "GetBookMetadata", isbns |-> isbns, enabled |-> ~disabled,
                 results |-> o.results, err |-> o.err])]
          /\ disabled' = o.disabled
          /\ cache' = o.cache
    /\ UNCHANGED <<scanVars, pipeVars, svcVars, lookupVars>>
    /\ UNCHANGED <<mainVars, metaVars, writerVars, poolVars, isbnVars>>
    /\ UNCHANGED <<chosen, engine, cycle, budget>>

RepeatNext ==
    \/ \E isbn \in Isbn10Values : RepeatFindResult(isbn)
    \/ \E isbn10s \in SeqsUpTo(Isbn10Values, MaxTerms) : RepeatGetBookMetadata(isbn10s)

RepeatSpec == InitRepeat /\ [][RepeatNext]_vars


(***************************************************************************)
(* main: the cache is imported, with or without --retry, then Scan runs.   *)
(***************************************************************************)
\* the cache files main may be given: any of the walked paths, with or without
\* an error message
CacheFiles == UNION {[C -> {NoErr, "x"}] : C \in SUBSET Paths}

\* the BookManager is built, nothing is imported yet
InitImport ==
    /\ walkList \in {SortedSeq(S) : S \in SUBSET Paths}
    /\ cacheFile \in CacheFiles
    /\ retry \in BOOLEAN
    /\ books = EmptyMap
    /\ imported = {}
    /\ scanPc = "import"
    /\ isbnCall = IdleIsbn
    /\ IdleComp
    /\ InitRest

\* bm.Import(opts.Cache, opts.RetryFailed)
MainImport ==
    /\ scanPc = "import"
    /\ books' = Import(cacheFile, retry)
    /\ imported' = DOMAIN books'
    /\ scanPc' = "start"
    /\ UNCHANGED <<dryRun, writerSet, writerClosed, written, scanExit, bookCount,
                   walkList, walkPos, waitIdx>>
    /\ UNCHANGED <<pipeVars, svcVars, provVars, lookupVars>>
    /\ UNCHANGED <<compVars, isbnVars, poolVars, mainVars, metaVars, writerVars>>

ImportNext == MainImport \/ ScanStep \/ PipelineStep \/ Watch

ImportSpec == InitImport /\ [][ImportNext]_vars


(***************************************************************************)
(* Generic.findResult, statement by statement, called concurrently.        *)
(***************************************************************************)
\* mutant of afterLoad: the cache is not consulted
afterLoadIgnoresCache(isbn) == "check disabled"

\* after g.cache.Load(isbn)
afterLoad(isbn) ==
    IF isbn \in DOMAIN cache THEN "return cached" ELSE "check disabled"

\* mutant of afterDisabledCheck: the disabled flag is not consulted
afterDisabledCheckSkipped == "wait for tick"

\* after `if g.disabled`
afterDisabledCheck ==
    IF disabled THEN "return self-disabled" ELSE "wait for tick"

\* mutant of afterInner: status 429 is handled like any other answer
afterInnerIgnores429(r) ==
    IF r.err # NoErr THEN "inner error" ELSE "ok"

\* mutant of afterInner: the result is stored when the inner call succeeded
afterInnerStoresSuccess(r) ==
    IF r.status = StatusTooManyRequests THEN "rate limited"
    ELSE IF r.err = NoErr THEN "inner error"
    ELSE "ok"

\* what findResult returns for the inner provider's answer r
afterInner(r) ==
    IF r.status = StatusTooManyRequests THEN "rate limited"
    ELSE IF r.err # NoErr THEN "inner error"
    ELSE "ok"

\* a caller enters findResult and looks the ISBN up in the cache
LookupLoad(l, isbn) ==
    /\ lookups[l].pc = "idle"
    /\ lookups[l].calls < MaxCalls
    /\ lookups' = [lookups EXCEPT ![l] =
          [pc |-> IF afterLoad(isbn) = "return cached" THEN "idle" ELSE "loaded",
           isbn |-> isbn,
           calls |-> lookups[l].calls + 1,
           ret |-> IF afterLoad(isbn) = "return cached" THEN "cached" ELSE "",
           afterDisabled |-> disabled,
           wasCached |-> isbn \in DOMAIN cache,
           result |-> IF afterLoad(isbn) = "return cached" THEN cache[isbn]
                      ELSE ZeroResult,
           err |-> NoErr,
           status |-> 0]]
    /\ UNCHANGED <<tick, innerCalls, ticksTaken>>
    /\ UNCHANGED <<scanVars, pipeVars, svcVars, provVars>>
    /\ UNCHANGED <<compVars, isbnVars, poolVars, mainVars, metaVars, writerVars>>

\* if g.disabled { return ..., "self-disabled" }
LookupDisabledCheck(l) ==
    /\ lookups[l].pc = "loaded"
    /\ lookups' = [lookups EXCEPT
          ![l].pc = IF afterDisabledCheck = "wait for tick" THEN "waiting" ELSE "idle",
          ![l].ret = IF afterDisabledCheck = "wait for tick" THEN "" ELSE "self-disabled",
          ![l].err = IF afterDisabledCheck = "wait for tick" THEN NoErr
                     ELSE ErrSelfDisabled]
    /\ UNCHANGED <<tick, innerCalls, ticksTaken>>
    /\ UNCHANGED <<scanVars, pipeVars, svcVars, provVars>>
    /\ UNCHANGED <<compVars, isbnVars, poolVars, mainVars, metaVars, writerVars>>

\* mutant of rateLimiterReady: the receive never blocks
rateLimiterNeverBlocks == TRUE

\* <-g.rateLimiter can proceed: a tick is in the channel
rateLimiterReady == tick

\* <-g.rateLimiter, then the call of g.FindResult starts
LookupTick(l) ==
    /\ lookups[l].pc = "waiting"
    /\ rateLimiterReady
    /\ tick' = FALSE
    /\ ticksTaken' = ticksTaken + 1
    /\ innerCalls' = innerCalls + 1
    /\ lookups' = [lookups EXCEPT ![l].pc = "inner"]
    /\ UNCHANGED <<scanVars, pipeVars, svcVars, provVars>>
    /\ UNCHANGED <<compVars, isbnVars, poolVars, mainVars, metaVars, writerVars>>

\* g.FindResult returns; 429 sets g.disabled, any other error stores the
\* result in the cache
LookupReturn(l, resp) ==
    /\ lookups[l].pc = "inner"
    /\ LET r == InnerFindResult(resp, NoPath)
       IN /\ lookups' = [lookups EXCEPT
                ![l].pc = "idle",
                ![l].ret = afterInner(r),
                ![l].result = IF afterInner(r) = "rate limited" THEN ZeroResult
                              ELSE r.result,
                ![l].err = r.err,
                ![l].status = r.status]
          /\ disabled' = IF afterInner(r) = "rate limited" THEN TRUE ELSE disabled
          /\ cache' = IF afterInner(r) = "inner error"
                      THEN MapPut(cache, lookups[l].isbn, r.result) ELSE cache
    /\ UNCHANGED <<tick, innerCalls, ticksTaken>>
    /\ UNCHANGED <<scanVars, pipeVars, svcVars>>
    /\ UNCHANGED <<compVars, isbnVars, poolVars, mainVars, metaVars, writerVars>>

\* time.Tick: the channel holds at most one tick
Tick ==
    /\ ~tick
    /\ tick' = TRUE
    /\ UNCHANGED <<lookups, innerCalls, ticksTaken>>
    /\ UNCHANGED <<scanVars, pipeVars, svcVars, provVars>>
    /\ UNCHANGED <<compVars, isbnVars, poolVars, mainVars, metaVars, writerVars>>

ProviderNext ==
    \/ \E l \in 1..NumLookups, isbn \in Isbns : LookupLoad(l, isbn)
    \/ \E l \in 1..NumLookups : LookupDisabledCheck(l)
    \/ \E l \in 1..NumLookups : LookupTick(l)
    \/ \E l \in 1..NumLookups, resp \in Responses : LookupReturn(l, resp)
    \/ Tick

InitProvider ==
    /\ walkList = <<>>
    /\ InitCommon
    /\ dryRun = FALSE
    /\ books = EmptyMap

ProviderSpec == InitProvider /\ [][ProviderNext]_vars


(***************************************************************************)
(* Properties.                                                             *)
(***************************************************************************)
\* the paths the walk sent to the pipeline frontend
SentPaths == {items[k].path : k \in {j \in ItemIds : items[j].pc \notin {"unvisited", "skipped"}}}

\* the number of items handed to the writer under the key `path`
WrittenCount(path) == Cardinality({i \in DOMAIN written : written[i].filepath = path})

\* Scan has left its polling loop
PastPoll == scanPc \in {"wait", "close", "closeQuit", "closeWait", "return", "returned"}

\* C1: after the walk, once the processed-map size equals the expected count,
\* Scan eventually returns with the pipeline closed and the writer closed.
C1_ScanReturnsWhenAllFinished ==
    (scanPc = "poll" /\ getProcessedBookCount = bookCount)
        ~> (scanPc = "returned" /\ writerClosed)

\* C2: a book whose search failed with "no results found" is finished: it is
\* handed to the writer and is in the processed map with that error.
C2_NoResultsBookIsFinished ==
    \A k \in ItemIds :
        (items[k].st = SearchStage /\ items[k].err = ErrNoResults
            /\ items[k].pc # "failed")
        => /\ isBookProcessed(items[k].path)
           /\ books[items[k].path].err = ErrNoResults
           /\ WrittenCount(items[k].path) = 1

C4_DisabledProvidersEndTheRun ==
    (scanPc = "poll" /\ disabled /\ getProcessedBookCount # bookCount
        /\ liveExtractors # {})
    => PollBranch = "providers down"

\* C5: if a supervisor's live set is empty during the polling loop, Scan
\* eventually returns.
C5_ScanReturnsWhenServicesDown ==
    (scanPc = "poll" /\ (liveExtractors = {} \/ liveProviders = {}))
        ~> (scanPc = "returned")

\* C6: a Book whose extract stage failed is finished by the fail-handler: once
\* the handler is done the path is in the processed map with the stage's
\* non-empty error and one item carrying that error went to the writer.
C6_ExtractFailureIsFinished ==
    \A k \in ItemIds :
        (items[k].st = ExtractStage /\ items[k].err # NoErr
            /\ items[k].pc \notin {"failed", "fhWrite"})
        => /\ items[k].pc = "finished"
           /\ isBookProcessed(items[k].path)
           /\ books[items[k].path] = Book(items[k].path, items[k].err)
           /\ \E i \in DOMAIN written : written[i] = Book(items[k].path, items[k].err)

C6_Witness ==
    /\ \E k \in ItemIds : /\ items[k].pc = "finished"
                          /\ items[k].err = ErrNoTexts
                          /\ isBookProcessed(items[k].path)
    /\ \E k \in ItemIds : /\ items[k].pc = "finished"
                          /\ items[k].err = ErrNoLiveExtractors
                          /\ isBookProcessed(items[k].path)

C8_NormalCompletionCounts ==
    (PastPoll /\ scanExit = "break")
    => /\ getProcessedBookCount = bookCount
       /\ bookCount = Cardinality(imported) + Cardinality({k \in ItemIds :
                          items[k].pc \notin {"unvisited", "skipped"}})
       /\ DOMAIN books \subseteq imported \cup SentPaths

C8_Witness ==
    /\ scanPc = "returned"
    /\ scanExit = "break"
    /\ imported # {}
    /\ walkPos = Len(walkList) /\ walkPos > 0

\* C9: while the wrapper's disabled flag is set, no call of the inner provider
\* starts and no rate-limit tick is consumed.
C9_DisabledMeansNoInnerCall ==
    [][disabled => (innerCalls' = innerCalls /\ ticksTaken' = ticksTaken)]_vars

\* C10 as stated: every lookup that starts once the wrapper is disabled
\* returns the "self-disabled" error, cached ISBN or not.
C10_DisabledAlwaysSelfDisabled ==
    \A l \in DOMAIN lookups :
        (lookups[l].pc = "idle" /\ lookups[l].calls > 0 /\ lookups[l].afterDisabled)
        => lookups[l].ret = "self-disabled"

\* C10 amended: a lookup that starts once the wrapper is disabled returns the
\* "self-disabled" error when its ISBN is not in the cache, and the cached
\* result with no error when it is.
C10_DisabledUnlessCached ==
    \A l \in DOMAIN lookups :
        (lookups[l].pc = "idle" /\ lookups[l].calls > 0 /\ lookups[l].afterDisabled)
        => lookups[l].ret = IF lookups[l].wasCached THEN "cached" ELSE "self-disabled"

C10_Witness ==
    /\ disabled
    /\ \E l \in DOMAIN lookups :
          /\ lookups[l].pc = "idle" /\ lookups[l].afterDisabled
          /\ lookups[l].wasCached /\ lookups[l].ret = "cached"
    /\ \E l \in DOMAIN lookups :
          /\ lookups[l].pc = "idle" /\ lookups[l].afterDisabled
          /\ ~lookups[l].wasCached /\ lookups[l].ret = "self-disabled"

\* lookup l returns from the inner call in this step
InnerReturns(l) == lookups[l].pc = "inner" /\ lookups'[l].pc = "idle"

\* lookup l enters findResult in this step
LookupStarts(l) == lookups[l].pc = "idle" /\ lookups'[l].calls = lookups[l].calls + 1

\* C11: a lookup whose inner call answered 429 sets the disabled flag and
\* returns a non-nil error, and the flag, once set, stays set.
C11_RateLimitDisablesForGood ==
    [][/\ disabled => disabled'
       /\ \A l \in DOMAIN lookups :
             (InnerReturns(l) /\ lookups'[l].status = StatusTooManyRequests)
             => (disabled' /\ lookups'[l].err # NoErr)]_vars

C11_Witness ==
    /\ disabled
    /\ \E l \in DOMAIN lookups :
          /\ lookups[l].pc = "idle" /\ lookups[l].status = StatusTooManyRequests
          /\ lookups[l].err = ErrRateLimited
    /\ \E l \in DOMAIN lookups :
          /\ lookups[l].pc = "idle" /\ lookups[l].afterDisabled
          /\ lookups[l].status # StatusTooManyRequests

\* C12 as stated: a returning lookup stores its result in the cache exactly
\* when its inner call returned a non-nil error, and nothing else changes the
\* cache.
C12_StoredIffInnerError ==
    [][/\ \A l \in DOMAIN lookups :
             InnerReturns(l)
             => IF lookups'[l].err # NoErr
                THEN /\ lookups[l].isbn \in DOMAIN cache'
                     /\ cache'[lookups[l].isbn] = lookups'[l].result
                ELSE cache' = cache
       /\ (\A l \in DOMAIN lookups : ~InnerReturns(l)) => cache' = cache]_vars

\* C12 amended: a returning lookup stores its result in the cache exactly
\* when its inner call returned a non-nil error with a status other than 429;
\* a lookup whose inner call returned no error, or status 429, leaves the
\* cache as it was, and nothing else changes the cache.
C12_StoredIffInnerErrorNot429 ==
    [][/\ \A l \in DOMAIN lookups :
             InnerReturns(l)
             => IF lookups'[l].err # NoErr /\ lookups'[l].status # StatusTooManyRequests
                THEN /\ cache' = MapPut(cache, lookups[l].isbn, lookups'[l].result)
                ELSE cache' = cache
       /\ (\A l \in DOMAIN lookups : ~InnerReturns(l)) => cache' = cache]_vars

C12_Witness ==
    /\ cache # EmptyMap
    /\ \E l \in DOMAIN lookups :
          /\ lookups[l].pc = "idle" /\ lookups[l].ret = "inner error"
          /\ lookups[l].isbn \in DOMAIN cache
          /\ cache[lookups[l].isbn] = lookups[l].result
    /\ \E l \in DOMAIN lookups :
          /\ lookups[l].pc = "idle" /\ lookups[l].status = StatusTooManyRequests
          /\ lookups[l].err # NoErr

\* C13: a lookup that finds its ISBN in the cache returns the cached result
\* and no error in that step, without a call of the inner provider and
\* without taking a tick.
C13_CachedLookupIsFree ==
    [][\A l \in DOMAIN lookups, isbn \in Isbns :
          (LookupStarts(l) /\ lookups'[l].isbn = isbn /\ isbn \in DOMAIN cache)
          => /\ lookups'[l].pc = "idle"
             /\ lookups'[l].result = cache[isbn]
             /\ lookups'[l].err = NoErr
             /\ innerCalls' = innerCalls
             /\ ticksTaken' = ticksTaken
             /\ tick' = tick]_vars

C13_Witness ==
    /\ tick
    /\ \E l \in DOMAIN lookups :
          /\ lookups[l].pc = "idle" /\ lookups[l].wasCached
          /\ lookups[l].ret = "cached" /\ lookups[l].calls > 0

\* C14: a call of the inner provider starts only in a step that takes the
\* one pending tick out of the channel, so the calls started are as many as
\* the ticks taken and never more than the ticks delivered.
C14_OneTickPerInnerCall ==
    [][/\ innerCalls' # innerCalls
          => /\ tick /\ ~tick'
             /\ innerCalls' = innerCalls + 1
             /\ ticksTaken' = ticksTaken + 1
       /\ innerCalls' = ticksTaken'
       /\ tick' \in BOOLEAN]_vars

C14_Witness ==
    /\ innerCalls >= 2
    /\ ~tick
    /\ \E l \in DOMAIN lookups : lookups[l].pc = "waiting"
    /\ \E l \in DOMAIN lookups : lookups[l].pc = "inner"

\* C16: a service that is out of a supervisor's live set is out of it in every
\* later state, whatever its checks answer.
C16_RemovedServiceStaysRemoved ==
    [][/\ liveExtractors' \subseteq liveExtractors
       /\ liveProviders' \subseteq liveProviders]_vars

C16_Witness ==
    /\ liveExtractors = {}
    /\ \E k \in ItemIds : items[k].err = ErrNoLiveExtractors /\ items[k].pc = "finished"
    /\ scanPc = "poll"

\* C17: the walk's visit of a path that is in the processed map sends nothing
\* to the frontend and leaves the expected count as it was, and the entry is
\* not sent later either.
C17_ProcessedPathIsNotSent ==
    [][\A k \in ItemIds :
          /\ (items[k].pc = "unvisited" /\ items'[k].pc # "unvisited"
                  /\ walkList[k] \in DOMAIN books)
             => (items'[k].pc = "skipped" /\ bookCount' = bookCount)
          /\ items[k].pc = "skipped" => items'[k].pc = "skipped"]_vars

C17_Witness ==
    /\ scanPc = "poll"
    /\ \E k \in ItemIds : /\ items[k].pc = "skipped"
                          /\ books[items[k].path].err # NoErr
    /\ \E k \in ItemIds : items[k].pc \notin {"unvisited", "skipped"}

\* the books that were in the processed map when Scan was entered, as they
\* are now (nothing replaces an entry of the map)
ImportedBooks == {books[p] : p \in imported}

\* C19: once Scan is past its first loop, the first items handed to the writer
\* are the books of the imported cache, each exactly once; they are written
\* while no pipeline goroutine runs, and items written later are books of
\* this run.
C19_CachedBooksWrittenFirst ==
    /\ scanPc \in {"start", "run"} => \A g \in Goroutines : ~started[g]
    /\ scanPc # "start"
       => /\ Len(written) >= Cardinality(imported)
          /\ {written[i] : i \in 1..Cardinality(imported)} = ImportedBooks
          /\ \A i \in DOMAIN written :
                i > Cardinality(imported) => written[i].filepath \notin imported
          /\ \A p \in imported : WrittenCount(p) = 1

C19_Witness ==
    /\ Cardinality(imported) = MaxCached
    /\ Len(written) > Cardinality(imported)
    /\ \E g \in Goroutines : started[g]

\* the entries of the cache file Import has to keep
KeptPaths == IF retry THEN {p \in DOMAIN cacheFile : cacheFile[p] = NoErr}
             ELSE DOMAIN cacheFile

\* C18: after the import the processed map holds the entries of the cache
\* file, with --retry all but those with a non-empty error message, each as
\* it was in the file; the walk of the scan that follows sends every removed
\* path it finds to the frontend and skips every kept path.
C18_RetryDropsExactlyErroredEntries ==
    scanPc # "import"
    => /\ imported = KeptPaths
       /\ \A p \in KeptPaths : p \in DOMAIN books /\ books[p] = Book(p, cacheFile[p])
       /\ \A k \in ItemIds :
             (items[k].pc # "unvisited" /\ walkList[k] \in DOMAIN cacheFile)
             => (items[k].pc = "skipped" <=> walkList[k] \in KeptPaths)

C18_Witness ==
    /\ retry
    /\ scanPc = "poll"
    /\ \E k \in ItemIds : /\ walkList[k] \in DOMAIN cacheFile
                          /\ cacheFile[walkList[k]] # NoErr
                          /\ items[k].pc = "finished"
    /\ \E k \in ItemIds : /\ walkList[k] \in DOMAIN cacheFile
                          /\ cacheFile[walkList[k]] = NoErr
                          /\ items[k].pc = "skipped"

\* what the findResult calls made so far returned
LookedIsbns == [i \in DOMAIN call.looked |-> call.looked[i].isbn]

LookedResults == [i \in DOMAIN call.looked |-> call.looked[i].result]

\* s is an initial part of t
IsPrefix(s, t) == Len(s) <= Len(t) /\ \A i \in DOMAIN s : s[i] = t[i]

\* C15: the lookups made are the ISBN-10s in their order followed by the
\* ISBN-13s in their order, up to and including the first that fails; when
\* one fails the call returns its error and no results, otherwise one result
\* per ISBN in that order.
C15_LookupsInOrderUntilFirstError ==
    /\ IsPrefix(LookedIsbns, call.isbn10s \o call.isbn13s)
    /\ \A i \in DOMAIN call.looked :
          i < Len(call.looked) => call.looked[i].err = NoErr
    /\ call.pc = "returned"
       => IF call.err # NoErr
          THEN /\ call.looked # <<>>
               /\ call.looked[Len(call.looked)].err = call.err
               /\ call.results = <<>>
          ELSE /\ LookedIsbns = call.isbn10s \o call.isbn13s
               /\ call.results = LookedResults
               /\ \A i \in DOMAIN call.looked : call.looked[i].err = NoErr

C15_Witness ==
    /\ call.pc = "returned"
    /\ call.err # NoErr
    /\ Len(call.isbn10s) = MaxTerms /\ Len(call.isbn13s) = MaxTerms
    /\ call.isbn10s[1] # call.isbn10s[2]
    /\ Len(call.looked) = MaxTerms + 1

\* the number of items in the file
EntriesInFile == Cardinality({i \in DOMAIN stream.file : stream.file[i].t = "entry"})

\* C20: the file is "{", then the items written so far with one comma
\* between neighbours and none before the first, then "}" exactly when Close
\* has finished.
C20_FileIsBraceEntriesCommas ==
    LET file == stream.file
    IN /\ file[1] = OpenBrace
       /\ \A i \in 2..Len(file) :
             /\ file[i] # OpenBrace
             /\ file[i] = Comma
                => /\ i > 2 /\ file[i - 1].t = "entry"
                   /\ i < Len(file) /\ file[i + 1].t = "entry"
             /\ file[i].t = "entry" => (i = 2 \/ file[i - 1] = Comma)
             /\ file[i] = CloseBrace => (i = Len(file) /\ stream.closePc = "closed")
       /\ stream.closePc = "closed" => file[Len(file)] = CloseBrace
       /\ EntriesInFile = stream.accepted - Len(stream.Input)

C20_Witness ==
    /\ stream.closePc = "closed"
    /\ EntriesInFile = MaxWrites
    /\ \E i \in DOMAIN stream.file :
          /\ stream.file[i] = Comma
          /\ stream.file[i - 1] # stream.file[i + 1]

\* the keys of the items the writer goroutine took from Input and wrote, in
\* their order in the file
RECURSIVE ChannelEntries(_)
ChannelEntries(n) ==
    IF n = 0 THEN <<>>
    ELSE IF stream.file[n].t = "entry" /\ n \notin stream.direct
         THEN Append(ChannelEntries(n - 1), stream.file[n].key)
         ELSE ChannelEntries(n - 1)

\* C21: the items the writer goroutine has written are, in file order, the
\* first of the items handed to Input, and the queue holds the rest in the
\* order they were handed over.
C21_FileOrderIsHandOverOrder ==
    ChannelEntries(Len(stream.file)) \o stream.Input = stream.handed

C21_Witness ==
    /\ Len(ChannelEntries(Len(stream.file))) >= 3
    /\ stream.direct # {}
    /\ \E i, j \in DOMAIN stream.handed :
          i < j /\ stream.handed[i] > stream.handed[j]

\* C22: once Close has returned every item handed to Input is in the file,
\* "}" is the last thing in the file, and nothing is written after it.
C22_CloseDrainsThenWritesBrace ==
    /\ [](stream.closePc = "closed"
           => /\ stream.Input = <<>>
              /\ ChannelEntries(Len(stream.file)) = stream.handed
              /\ stream.file[Len(stream.file)] = CloseBrace)
    /\ [][stream.closePc = "closed" => stream'.file = stream.file]_vars

C22_Witness ==
    /\ stream.closePc = "closed"
    /\ Len(stream.handed) >= 2
    /\ stream.isInitialized
    /\ stream.accepted < MaxWrites

\* the goroutines past StartThread in stage s, and in the whole pipeline
InFlight(s) == Cardinality({w \in DOMAIN pool.work :
                              pool.work[w].pc = "working" /\ pool.work[w].st = s})

TotalInFlight == Cardinality({w \in DOMAIN pool.work : pool.work[w].pc = "working"})

\* ceil(total_thread_count / num_stages)
CeilPerStage == (TotalThreadCount + NumStages - 1) \div NumStages

\* C23: the workers in flight in the whole pipeline are at most
\* num_stages * ceil(total_thread_count / num_stages), and no pool counts
\* more threads than its size.
C23_PoolsAreNotOversubscribed ==
    /\ TotalInFlight <= NumStages * CeilPerStage
    /\ \A s \in Stages : pool.Count[s] <= PoolSize

\* C24: a dry-run Scan whose walk sent accepted files to the pipeline ends
\* with a clean shutdown: Scan returns and the writer is closed.
C24_DryRunScanShutsDownCleanly ==
    (dryRun /\ scanPc = "poll" /\ SentPaths # {})
        ~> (scanPc = "returned" /\ writerClosed)

\* C25: during a dry run every call of the search worker returns the "dry run"
\* failure and leaves the provider wrapper as it was (no lookup is made, so
\* neither its cache nor its disabled flag changes); the item that failed so
\* is dropped: its path is never written and never enters the processed map.
C25_DryRunConsultsNoProvider ==
    /\ [][\A k \in ItemIds :
            (dryRun /\ items[k].st = SearchStage /\ items[k].pc = "running"
                /\ items'[k].pc # "running")
            => /\ items'[k].pc = "failed"
               /\ items'[k].err = ErrDryRun
               /\ disabled' = disabled
               /\ cache' = cache]_vars
    /\ [](\A k \in ItemIds :
            items[k].err = ErrDryRun
            => /\ items[k].pc \in {"failed", "dropped"}
               /\ ~isBookProcessed(items[k].path)
               /\ WrittenCount(items[k].path) = 0)

C25_Witness ==
    /\ dryRun
    /\ liveProviders # {}
    /\ ~disabled
    /\ \E k \in ItemIds : items[k].pc = "dropped" /\ items[k].err = ErrDryRun

\* the matches of pattern in text, cleaned and upper-cased, in match order
CleanedMatches(text, pattern) ==
    LET occurrences == FindAllString(text, pattern)
    IN [i \in DOMAIN occurrences |-> ToUpper(Clean(occurrences[i]))]

PassesIsbn10(v) == IsIsbnCandidate(v) /\ ISBN10IsValid(v)

PassesIsbn13(v) == IsIsbnCandidate(v) /\ ISBN13IsValid(v)

DigitsOrTerminalX(s) ==
    \A i \in DOMAIN s : IsDigit(s[i]) \/ (s[i] = CharX /\ Len(s) = 10 /\ i = 10)

\* C27 as stated: IsIsbnCandidate(s) is true exactly when s has length 10 or
\* 13, every character is a digit or, only as the last character of a
\* 10-character string, X, and s is not one of the eleven placeholders.
C27_CandidateIffDigitsOrTerminalX ==
    isbnCall.fn = "IsIsbnCandidate"
    => (isbnCall.ok <=> /\ Len(isbnCall.text) \in {10, 13}
                        /\ DigitsOrTerminalX(isbnCall.text)
                        /\ isbnCall.text \notin badIsbns)

\* C27 amended: IsIsbnCandidate(s) is true exactly when s has length 10 or 13,
\* every character is a digit, X or x (in any position, for either length),
\* and s is not one of the eleven placeholders.
C27_CandidateIffDigitsOrAnyX ==
    /\ Cardinality(badIsbns) = 11
    /\ isbnCall.fn = "IsIsbnCandidate"
       => (isbnCall.ok <=> /\ Len(isbnCall.text) \in {10, 13}
                           /\ \A i \in DOMAIN isbnCall.text :
                                 \/ IsDigit(isbnCall.text[i])
                                 \/ isbnCall.text[i] \in {CharX, CharLowerX}
                           /\ isbnCall.text \notin badIsbns)

C27_Witness ==
    /\ isbnCall.fn = "IsIsbnCandidate"
    /\ isbnCall.ok
    /\ Len(isbnCall.text) = 13
    /\ \E i \in 1..12 : isbnCall.text[i] = CharX

\* the ISBN-10 sum of a 10-character string of digits and X: weights 10 down
\* to 1, X counting as 10
RECURSIVE WeightedSum10(_, _)
WeightedSum10(s, i) ==
    IF i > 10
    THEN 0
    ELSE (11 - i) * (IF s[i] = CharX THEN 10 ELSE s[i] - Char0) + WeightedSum10(s, i + 1)

\* C28: for a 10-character string of digits and X, ISBN10.IsValid holds exactly
\* when no X stands before the last position and the sum with weights 10 down
\* to 1 (X counting as 10) is divisible by 11; and ISBN10.IsValid rejects every
\* string with an X anywhere but in the last position.
C28_Valid10IffWeightedSumDivisible ==
    isbnCall.fn = "ISBN10.IsValid"
    => /\ (/\ Len(isbnCall.text) = 10
           /\ \A i \in 1..10 : IsDigit(isbnCall.text[i]) \/ isbnCall.text[i] = CharX)
          => (isbnCall.ok <=> /\ \A i \in 1..9 : isbnCall.text[i] # CharX
                              /\ WeightedSum10(isbnCall.text, 1) % 11 = 0)
       /\ (\E i \in 1..(Len(isbnCall.text) - 1) : isbnCall.text[i] = CharX)
          => ~isbnCall.ok

C28_Witness ==
    /\ isbnCall.fn = "ISBN10.IsValid"
    /\ isbnCall.ok
    /\ Len(isbnCall.text) = 10
    /\ isbnCall.text[10] = CharX

\* the ISBN-13 sum of a 13-digit string: weights 1, 3, 1, 3, ...
RECURSIVE AlternatingSum13(_, _)
AlternatingSum13(s, i) ==
    IF i > 13
    THEN 0
    ELSE (IF i % 2 = 1 THEN 1 ELSE 3) * (s[i] - Char0) + AlternatingSum13(s, i + 1)

\* C29: ISBN13.IsValid holds for a string exactly when the string is thirteen
\* digits whose sum with weights alternating 1 and 3 is divisible by 10.
C29_Valid13IffThirteenDigitsDivisible ==
    isbnCall.fn = "ISBN13.IsValid"
    => (isbnCall.ok <=> /\ Len(isbnCall.text) = 13
                        /\ \A i \in 1..13 : IsDigit(isbnCall.text[i])
                        /\ AlternatingSum13(isbnCall.text, 1) % 10 = 0)

\* a valid ISBN string: ten characters passing the ISBN-10 checksum, or
\* thirteen digits passing the ISBN-13 checksum
ValidIsbnString(s) ==
    \/ Len(s) = 10 /\ ISBN10IsValid(s)
    \/ Len(s) = 13 /\ (\A i \in 1..13 : IsDigit(s[i])) /\ ISBN13IsValid(s)

\* C30 as stated: every valid ISBN string is an ISBN candidate.
C30_ValidIsCandidate ==
    (isbnCall.fn = "IsIsbnCandidate" /\ ValidIsbnString(isbnCall.text))
    => isbnCall.ok

\* C30 amended: a valid ISBN string made of digits, with X at most as the last
\* of ten characters, is an ISBN candidate exactly when it is none of the
\* eleven placeholders; each placeholder passes the ISBN-10 checksum.
C30_ValidIsCandidateUnlessPlaceholder ==
    /\ \A b \in badIsbns : ISBN10IsValid(b)
    /\ (/\ isbnCall.fn = "IsIsbnCandidate"
        /\ ValidIsbnString(isbnCall.text)
        /\ DigitsOrTerminalX(isbnCall.text))
       => (isbnCall.ok <=> isbnCall.text \notin badIsbns)

C30_Witness ==
    /\ isbnCall.fn = "IsIsbnCandidate"
    /\ isbnCall.ok
    /\ ValidIsbnString(isbnCall.text)
    /\ Len(isbnCall.text) = 10
    /\ isbnCall.text[10] = CharX

\* the results ChooseBestResult may choose: confidence not NaN and above 0
Eligible(results) ==
    {i \in DOMAIN results : ~results[i].isNaN /\ results[i].confidence > 0}

\* C31: ChooseBestResult returns the first result whose confidence is the
\* maximum over the eligible results, and an error exactly when no result is
\* eligible (the empty list included).
C31_FirstOfHighestConfidence ==
    chosen.pc = "returned"
    => /\ (chosen.err # NoErr) <=> (Eligible(chosen.results) = {})
       /\ chosen.err # NoErr => chosen.best = 0
       /\ chosen.err = NoErr
          => /\ chosen.best \in Eligible(chosen.results)
             /\ \A i \in Eligible(chosen.results) :
                   /\ chosen.results[i].confidence
                        <= chosen.results[chosen.best].confidence
                   /\ chosen.results[i].confidence
                        = chosen.results[chosen.best].confidence => chosen.best <= i

C31_Witness ==
    /\ chosen.pc = "returned"
    /\ Len(chosen.results) = 3
    /\ chosen.best = 2
    /\ chosen.results[1].isNaN
    /\ chosen.results[3].confidence = chosen.results[2].confidence
    /\ ~chosen.results[3].isNaN

\* the item is past the work closure of the stage it failed in
AfterFailHandler == {"fhWrite", "discarded", "dropped"}

\* C32: a worker that returns ends in exactly one of two ways: with a result
\* and no error, and then the item goes on to the next stage (its receiver)
\* and the fail-handler is not called for it; or with a failure, and then the
\* fail-handler is called once with the input item and the item goes no
\* further.
C32_ForwardedOrFailedNeverBoth ==
    [][\A k \in ItemIds :
        /\ (items[k].pc = "running" /\ items'[k].pc # "running")
           => /\ items'[k].st = items[k].st
              /\ failCount' = failCount
              /\ \/ items'[k].pc = "result" /\ items'[k].err = NoErr
                 \/ items'[k].pc = "failed" /\ items'[k].err # NoErr
        /\ (items[k].pc = "result" /\ items'[k].pc # "result")
           => /\ items'[k].st = items[k].st + 1
              /\ items'[k].pc \in {"spawned", "collecting"}
              /\ failCount' = failCount
        /\ (items[k].pc = "failed" /\ items'[k].pc # "failed")
           => /\ items'[k].st = items[k].st
              /\ items'[k].pc \in AfterFailHandler
              /\ items'[k].path = items[k].path
              /\ failCount' = failCount + 1
        /\ items[k].pc \in AfterFailHandler \cup {"finished"}
           => /\ items'[k].st = items[k].st
              /\ items'[k].pc \in AfterFailHandler \cup {"finished"}
        /\ items'[k].st # items[k].st => items[k].pc = "result"]_vars

C32_Witness ==
    /\ failCount = 1
    /\ \E k, j \in ItemIds :
          /\ items[k].st = SearchStage /\ items[k].pc = "dropped"
          /\ items[j].st = Collector /\ items[j].pc = "finished"

\* C33: once Pipeline.Close has closed a channel, no worker that sends on it
\* is still running or yet to run (a send on a closed channel panics).
C33_NoWorkerLeftForClosedChannel ==
    \A k \in ItemIds :
        items[k].pc \in {"spawned", "running", "result"}
        => (items[k].st + 1) \notin closedChans

\* the items stage s has received from its input channel and whose work
\* closure has not returned
Received(s) == Cardinality({w \in DOMAIN pool.work :
                              pool.work[w].pc # "idle" /\ pool.work[w].st = s})

\* C34: the items a stage has received and not yet completed are at most as
\* many as its pool size.
C34_ReceivedWithinPoolSize ==
    \A s \in Stages : Received(s) <= PoolSize

\* C35: whatever the number of stages, an item pushed to the backend is
\* eventually received by the collector and passed to the collector function.
C35_PushedToBackendIsCollected ==
    \A k \in 1..MaxItems :
        (engine.n > 0 /\ engine.its[k].pc = "push" /\ engine.its[k].at = engine.n)
            ~> (engine.its[k].pc = "collected")

\* the checks of the cycle made on svc, and the services in the order of
\* their first check
ChecksOf(svc) == SelectSeq(cycle.log, LAMBDA e : e.svc = svc)

SelfChecked ==
    LET selfs == SelectSeq(cycle.log, LAMBDA e : e.check = "SelfCheck")
    IN [i \in DOMAIN selfs |-> selfs[i].svc]

\* C36: within a cycle the services are checked one after another in
\* registration order, HealthCheck is called for a service only right after
\* its SelfCheck passed; when the cycle is over every service was checked, a
\* service one of whose checks failed is not live, and a service both of
\* whose checks passed is live if it was live before the cycle.
C36_ProbeCycleRemovesExactlyTheFailed ==
    /\ \A i \in DOMAIN cycle.log :
          cycle.log[i].check = "HealthCheck"
          => /\ i > 1
             /\ cycle.log[i - 1] = [svc |-> cycle.log[i].svc, check |-> "SelfCheck",
                                    up |-> TRUE]
    /\ IsPrefix(SelfChecked, cycle.services)
    /\ (cycle.pc = "sleep" /\ cycle.cycles > 0)
       => /\ SelfChecked = cycle.services
          /\ \A i \in DOMAIN cycle.services :
                LET svc == cycle.services[i]
                    checks == ChecksOf(svc)
                IN IF \E j \in DOMAIN checks : ~checks[j].up
                   THEN svc \notin cycle.live
                   ELSE /\ Len(checks) = 2
                        /\ svc \in cycle.live <=> svc \in cycle.before

C36_Witness ==
    /\ cycle.pc = "sleep"
    /\ cycle.cycles = 2
    /\ Len(cycle.services) = 2
    /\ Len(cycle.log) = 4
    /\ ~cycle.log[2].up
    /\ cycle.log[4].up
    /\ cycle.services[2] \in cycle.live
    /\ cycle.services[1] > cycle.services[2]

\* C37: for every thread budget each stage's pool has room for a worker
\* besides the stage's loop, and every book sent to the frontend is
\* eventually passed to the extract worker function.
C37_EveryBudgetAdmitsAWorker ==
    /\ [](budget.pc = "built" => budget.Size >= 2)
    /\ \A k \in 1..MaxBooks :
          (budget.pc = "built" /\ budget.bks[k] = "spawned")
              ~> (budget.bks[k] \in {"working", "done"})

\* C38: with an inner provider that answers an ISBN the same way every
\* time, a call of findResult or GetBookMetadata on an enabled wrapper and
\* the same call made right after it report the same outcome: both an error,
\* or both a success with the same results.
C38_RepeatedLookupSameOutcome ==
    \A i \in DOMAIN repeat.log : \A j \in DOMAIN repeat.log :
        (/\ j = i + 1
         /\ repeat.log[i].enabled
         /\ repeat.log[i].kind = repeat.log[j].kind
         /\ repeat.log[i].isbns = repeat.log[j].isbns)
        => /\ (repeat.log[i].err = NoErr) <=> (repeat.log[j].err = NoErr)
           /\ repeat.log[i].err = NoErr
                 => repeat.log[i].results = repeat.log[j].results

\* the items sent to the frontend
SentItems == {k \in ItemIds : items[k].pc \notin {"unvisited", "skipped"}}

\* the items a stage received and has neither forwarded nor failed
HeldItems == {k \in SentItems : items[k].pc \in {"spawned", "running", "result", "failed"}}

\* the items the collector received
CollectorItems == {k \in SentItems : items[k].st = Collector}

\* the items for which the fail handler was called
FailHandledItems == SentItems \ (HeldItems \cup CollectorItems)

\* C39: at every moment the items sent to the frontend are those held by a
\* stage, those the fail handler was called for and those the collector
\* received, each item in one group only; the failure counter is the number
\* of fail-handler calls, so sent = held + failure counter + received.
C39_EveryItemHeldFailedOrCollected ==
    /\ HeldItems \cap CollectorItems = {}
    /\ \A k \in FailHandledItems :
          /\ items[k].pc \in {"fhWrite", "discarded", "dropped", "finished"}
          /\ items[k].st \in {ExtractStage, SearchStage, CollateStage}
    /\ failCount = Cardinality(FailHandledItems)
    /\ Cardinality(SentItems)
          = Cardinality(HeldItems) + failCount + Cardinality(CollectorItems)

\* one item was failed and counted, the other was received by the collector
C39_Witness ==
    /\ failCount = 1
    /\ Cardinality(CollectorItems) = 1
    /\ Cardinality(SentItems) = 2
    /\ HeldItems = {}

\* C40: when the conversion function fails for an object, WriteObject hands
\* no item to the Input channel and the file gets nothing for that call: the
\* zero item a failed conversion returns is never sent and never written.
C40_FailedConversionHandsNothing ==
    /\ \A i \in DOMAIN stream.handed : stream.handed[i] # NoPath
    /\ \A i \in DOMAIN stream.file : stream.file[i] # Entry(NoPath)


====
